---- MODULE Spec2Model ----
(***************************************************************************)
(* Model of the aero kernel storage core: the AHCI driver                  *)
(* (src/aero_kernel/src/drivers/ahci.rs).                                  *)
(*                                                                         *)
(* Three specifications share the variables of this module:               *)
(*   Spec / FairSpec  the per-port command-slot engine (AhciPort::read,    *)
(*                    AhciPort::run_request, AhciPortProtected::           *)
(*                    run_request, HbaPort::run_command) run by            *)
(*                    concurrent kernel threads against one device;        *)
(*   SpecDma          the DMA request splitter (DmaRequest::new);          *)
(*   SpecProbe        port bring-up (HbaPort::probe / start / stop_cmd /   *)
(*                    start_cmd) against the port's command register.      *)
(***************************************************************************)
EXTENDS Integers, Sequences, FiniteSets, TLC

(***************************************************************************)
(* Bounds of the model (not program constants).                            *)
(***************************************************************************)
NumThreads == 2
MaxReads == 3
MaxSectors == 70
NumFrames == 600

(***************************************************************************)
(* Program constants.                                                      *)
(***************************************************************************)
NumSlots == 32
SectorSize == 512
MaxBufferSize == 8192
HugeThreshold == 4096
MaxCmdSectors == 128
SectorsPerBuffer == 16
Lba28Max == 268435455
AtaCommandReadDma == 200
AtaCommandReadDmaExt == 37
AtaCommandWriteDma == 202
AtaCommandWriteDmaExt == 53
\* Every AtaCommand that writes to the device.
AtaWriteCommands == {202, 204, 197, 48, 53, 54, 57, 52}
PrdtlInit == 8
HbaPortDd_PresentAndE == 3
HbaPortIpm_Active == 1
FrameSize == 4096

Threads == 1..NumThreads
Slots == 0..(NumSlots - 1)

Min(a, b) == IF a < b THEN a ELSE b

(***************************************************************************)
(* Option<T> is a sequence of length at most one: <<>> is None, <<x>> is   *)
(* Some(x).                                                                *)
(***************************************************************************)
None == <<>>
Some(x) == <<x>>
is_none(o) == o = <<>>
is_some(o) == o # <<>>
unwrap(o) == o[1]

VARIABLES
    \* ---- the port engine (AhciPortProtected and the HbaPort registers) ----
    cmds,        \* cmds[i]: Option<AhciCommand>, the id of the request held
    free_cmds,   \* AhciPortProtected.free_cmds
    ci,          \* HbaPort.ci: the set of slots whose command-issue bit is set
    cmdtbl,      \* per slot: command header prdtl, PRDT and command FIS
    lock,        \* AhciPort.inner: 0 when free, else the thread holding it
    rc,          \* rc[id]: strong count of the id-th Arc<DmaRequest> created
    nextFrame,   \* FRAME_ALLOCATOR: number of frames handed out
    \* ---- each thread inside AhciPort::read ----
    pc, req, blen, offset, remaining, slot, cnt, irqOff, dst,
    ioerr,       \* ioerr[t]: the device failed a command of t's current call
    result,      \* result[t]: what t's last call of AhciPort::read returned
    \* ---- the DMA request splitter on its own ----
    dmaIn, dmaOut,
    \* ---- port bring-up ----
    ppc, ssts, pcmd, clb, fb, ctb, hdrPrdtl, pidx, probeRet,
    \* ---- the ext2 volume ----
    sb,          \* Ext2.superblock: the fields the driver uses
    checked,     \* the build has overflow checks and debug assertions
    \* ---- INode::read_at ----
    rpc, rsize, roff, rlen, rcount, rprogress, rwrites, rfail, rret,
    \* ---- Ext2::new, Ext2::find_inode and root_dir ----
    mpc,         \* where Ext2::new is, or how it ended
    bgdt,        \* Ext2.bgdt: Some(its length) once read
    bgdtReads,   \* device reads of the group-descriptor table so far
    bgdtAt,      \* the sector the group-descriptor table was read from
    icache,      \* cache::icache(): the inode ids cached for this volume
    fret,        \* the last call of find_inode: its id, device answer, result
    rootRet,     \* the last call of root_dir: device answer, result
    \* ---- INode::lookup over DirEntryIter ----
    lpc, dir, lname, loff, lret,
    lreads,      \* the entries DirEntryIter::next has read: offset and name size
    \* ---- AhciProtected::start_hba ----
    hpc, ghc, current_flags, pi, hidx, hports,
    \* ---- the pty pair: Master and Slave ioctl ----
    termios,     \* SlaveInner.termios
    window_size, \* Master.window_size
    attached,    \* the calling task has the master as controlling terminal
    ucell,       \* the user memory the ioctl argument points at
    plog,        \* number of warnings Master::ioctl has logged
    pcalls,      \* number of ioctl calls made so far
    pcall,       \* the last call on the pair: device, command, result
    mbuf,        \* Master.buffer: the bytes written by the slave, not yet read
    pwrites,     \* the Slave::write_at calls made, in order
    preads,      \* the Master::read_at calls made, in order
    slaves,      \* PtsINode.slaves: the ids slaves are registered under
    PTY_ID,      \* the id the next Master::new takes
    ptsRet,      \* the last PtsINode::lookup: its name, the slaves then, its result
    \* ---- HbaPort::run_command on its own ----
    cpc, cin, cold, ctbl

engineVars == <<cmds, free_cmds, ci, cmdtbl, lock, rc,
                pc, req, blen, offset, remaining, slot, cnt, irqOff, dst,
                ioerr, result>>
dmaVars == <<dmaIn, dmaOut>>
probeVars == <<ppc, ssts, pcmd, clb, fb, ctb, hdrPrdtl, pidx, probeRet>>
fsVars == <<sb, checked>>
readAtVars == <<rpc, rsize, roff, rlen, rcount, rprogress, rwrites, rfail, rret>>
mountVars == <<mpc, bgdt, bgdtReads, bgdtAt, icache, fret, rootRet>>
lookupVars == <<lpc, dir, lname, loff, lret, lreads>>
hbaVars == <<hpc, ghc, current_flags, pi, hidx, hports>>
ptyIoVars == <<mbuf, pwrites, preads>>
ptsVars == <<slaves, PTY_ID, ptsRet>>
ptyVars == <<termios, window_size, attached, ucell, plog, pcalls, pcall,
             ptyIoVars, ptsVars>>
cmdVars == <<cpc, cin, cold, ctbl>>
moreVars == <<ptyVars, cmdVars>>
extVars == <<fsVars, readAtVars, mountVars, lookupVars, hbaVars, moreVars>>
vars == <<engineVars, nextFrame, dmaVars, probeVars, extVars>>

(***************************************************************************)
(* FRAME_ALLOCATOR.allocate_frame(): the n-th frame handed out, or None    *)
(* once the pool of NumFrames frames is exhausted.                         *)
(***************************************************************************)
allocate_frame(n) == IF n < NumFrames THEN Some(n * FrameSize) ELSE None

(***************************************************************************)
(* DmaRequest::new.  The loop body computes, from the bytes still to be    *)
(* covered, the huge flag and the data size of the next buffer.            *)
(***************************************************************************)
BufferHuge_Mut(size) == size > MaxBufferSize
BufferHuge(size) == size > HugeThreshold

BufferDataSize_Mut(size) == Min(size, HugeThreshold)
BufferDataSize(size) == Min(size, MaxBufferSize)

\* One iteration of the `while size > 0` loop.  The loop state is the bytes
\* still to cover, the buffers pushed so far and whether allocate_frame has
\* failed (the `.expect` panics).  `frame` frames were handed out before the
\* call, and one more for every buffer pushed since.
dma_new_step(st, frame) ==
    LET got == allocate_frame(frame + Len(st.buffer))
    IN  IF is_none(got)
        THEN [st EXCEPT !.failed = TRUE]
        ELSE [size |-> st.size - BufferDataSize(st.size),
              buffer |-> Append(st.buffer, [start |-> unwrap(got),
                                            data_size |-> BufferDataSize(st.size),
                                            huge |-> BufferHuge(st.size)]),
              failed |-> FALSE]

\* At most k iterations of the loop from state st; it stops when size = 0 or
\* on the panic.  (The iterations are split in halves to keep the
\* evaluation shallow.)
RECURSIVE dma_new_loop(_, _, _)
dma_new_loop(k, st, frame) ==
    IF k = 0 \/ st.size = 0 \/ st.failed THEN st
    ELSE IF k = 1 THEN dma_new_step(st, frame)
    ELSE dma_new_loop(k - k \div 2, dma_new_loop(k \div 2, st, frame), frame)

\* The whole loop for `count` sectors: every iteration but the last covers
\* at least one sector, so `count` iterations are enough when it ends at all.
dma_new_buffers(count, frame) ==
    dma_new_loop(count, [size |-> count * SectorSize, buffer |-> <<>>,
                         failed |-> FALSE], frame)

\* The destination lengths, in bytes, the port engine's callers read with:
\* 10 KiB (one command), a request of two commands, and one of 31 commands
\* that leaves a fresh port with a single free slot.
ReadLens == {10240, 129 * 512, 31 * 128 * 512}

\* The destination lengths of the reads made around the 28-bit limit: one
\* that is not a whole number of sectors (one command), and a request of two
\* commands.
LbaLens == {10000, 129 * 512}

AllReadLens == ReadLens \cup LbaLens

\* The sector counts requests are built with: those of the port engine's
\* reads and every count up to MaxSectors.
RequestCounts == {(len + 511) \div 512 : len \in AllReadLens} \cup (0..MaxSectors)

\* The loop's result for every count, run once with no frame handed out
\* before it.
DmaBuffers == [count \in RequestCounts |-> dma_new_buffers(count, 0)]

\* DmaRequest::new(sector, count) with `frame` frames already handed out:
\* the loop's buffers, each on the frame that is `frame` allocations later;
\* None when the pool runs out before the loop ends.
\* count * 512 cannot wrap a 64-bit usize for the counts of this model.
DmaRequest_new(sector, count, frame) ==
    LET b == DmaBuffers[count].buffer
    IN  IF DmaBuffers[count].failed \/ frame + Len(b) > NumFrames THEN None
        ELSE Some([sector |-> sector, count |-> count,
                   buffer |-> SubSeq([k \in 1..Len(b) |->
                                         [b[k] EXCEPT !.start = @ + frame * FrameSize]],
                                     1, Len(b))])

\* DmaRequest::at_offset: &self.buffer[offset / 16..]; None when the slice
\* start is past the end (the index panics).
at_offset_Mut(request, off) ==
    Some(SubSeq(request.buffer, off \div MaxCmdSectors + 1, Len(request.buffer)))
at_offset(request, off) ==
    IF off \div SectorsPerBuffer > Len(request.buffer)
    THEN None
    ELSE Some(SubSeq(request.buffer, off \div SectorsPerBuffer + 1,
                     Len(request.buffer)))

\* DmaRequest::into_command.
into_command_Mut(request) ==
    IF request.sector >= Lba28Max THEN AtaCommandReadDmaExt ELSE AtaCommandReadDma
into_command(request) ==
    IF request.sector > Lba28Max THEN AtaCommandReadDmaExt ELSE AtaCommandReadDma

\* DmaRequest::copy_into: the copies made into a destination of `len` bytes,
\* in order: `count` bytes of DMA buffer `buf` to into[at .. at + count].
\* One iteration of `for buffer in self.buffer.iter()`, for the k-th buffer:
copy_into_step_Mut(st, k) ==
    LET count == Min(st.remaning, HugeThreshold)
    IN  [off |-> st.off + count,
         remaning |-> st.remaning - count,
         copies |-> Append(st.copies, [buf |-> k, at |-> st.off, count |-> count])]
copy_into_step(st, k) ==
    LET count == Min(st.remaning, MaxBufferSize)
    IN  [off |-> st.off + count,
         remaning |-> st.remaning - count,
         copies |-> Append(st.copies, [buf |-> k, at |-> st.off, count |-> count])]

\* The iterations for buffers lo..hi.  Once nothing remains every further
\* iteration copies zero bytes and is left out.
RECURSIVE copy_into_loop(_, _, _)
copy_into_loop(lo, hi, st) ==
    IF lo > hi \/ st.remaning = 0 THEN st
    ELSE IF lo = hi THEN copy_into_step(st, lo)
    ELSE copy_into_loop((lo + hi) \div 2 + 1, hi,
                        copy_into_loop(lo, (lo + hi) \div 2, st))

\* The loop's result for every number of buffers and destination length of
\* the port engine's reads.
CopyCopies ==
    [n \in {Len(DmaBuffers[(len + 511) \div 512].buffer) : len \in AllReadLens},
     len \in AllReadLens |->
        copy_into_loop(1, n, [off |-> 0, remaning |-> len, copies |-> <<>>]).copies]

copy_into(request, len) == CopyCopies[Len(request.buffer), len]

(***************************************************************************)
(* HbaPort::run_command, up to the write of the command-issue register.    *)
(***************************************************************************)
PrdtLength(count) == ((count - 1) \div 16) + 1

\* buffer[pri] is indexed for pri in 0..length-1: an index past the slice
\* panics.
RunCommandPanics(count, buffer) == PrdtLength(count) > Len(buffer)

\* prdt.flags.get().set_bits(0..=21, data_size - 1): bits 0..21 of the
\* descriptor's flags word are replaced.  The word is kept as its two parts,
\* dbc (bits 0..21) and rest (bits 22..31).
PrdtFlags_Mut(old, data_size) == [dbc |-> (data_size - 1) % 4194304, rest |-> 0]
PrdtFlags(old, data_size) == [dbc |-> (data_size - 1) % 4194304, rest |-> old.rest]

\* The flags word of descriptor k before run_command writes it; a
\* descriptor nothing was written to yet holds zeroes.
OldPrdtFlags(old, k) ==
    IF k <= Len(old.prdt) THEN [dbc |-> old.prdt[k].dbc, rest |-> old.prdt[k].rest]
    ELSE [dbc |-> 0, rest |-> 0]

\* The command header and command table of the slot after run_command has
\* programmed them.  PRDT entries past `length` keep what they held.
RunCommandTable(old, command, sector, count, buffer) ==
    LET length == PrdtLength(count)
        n == IF Len(old.prdt) > length THEN Len(old.prdt) ELSE length
    IN  [w |-> command \in {AtaCommandWriteDmaExt, AtaCommandWriteDma},
         prdtl |-> length % 65536,
         prdt |-> [k \in 1..n |->
                      IF k <= length
                      THEN LET f == PrdtFlags(OldPrdtFlags(old, k), buffer[k].data_size)
                           IN  [dba |-> buffer[k].start, dbc |-> f.dbc, rest |-> f.rest]
                      ELSE old.prdt[k]],
         fis |-> [command |-> command,
                  lba |-> <<sector % 256,
                            (sector \div 256) % 256,
                            (sector \div 65536) % 256,
                            (sector \div 16777216) % 256,
                            ((sector \div 16777216) \div 256) % 256,
                            ((sector \div 16777216) \div 65536) % 256>>,
                  count |-> count % 65536]]

(***************************************************************************)
(* AhciPortProtected::run_request: the slot search                         *)
(*   self.cmds.iter().enumerate().find_map(|(i, e)| e.is_none() ...)       *)
(***************************************************************************)
FreeSlots == {i \in Slots : is_none(cmds[i])}

find_free_slot_Mut == IF FreeSlots = {} THEN None ELSE Some(0)
find_free_slot ==
    IF FreeSlots = {} THEN None
    ELSE Some(CHOOSE i \in FreeSlots : \A j \in FreeSlots : i <= j)

\* `let count = core::cmp::min(remaining, 128)`
CommandSectors_Mut(rem) == Min(rem, SectorsPerBuffer)
CommandSectors_Wide(rem) == Min(rem, 2 * MaxCmdSectors)
CommandSectors(rem) == Min(rem, MaxCmdSectors)

\* self.inner.lock(): the spin lock is acquired only when nobody holds it.
CanLock_Mut == TRUE
CanLock == lock = 0

\* The loop of run_command that polls the command-issue register ends when
\* the slot's bit reads as clear.
CommandCompleted(i) == i \notin ci

(***************************************************************************)
(* The port engine: threads calling AhciPort::read on one port.            *)
(***************************************************************************)
\* The (sector, buffer length in bytes) pairs the callers read with.
ReadInputs == {0} \X ReadLens

EngineInit ==
    /\ cmds = [i \in Slots |-> None]
    /\ free_cmds = NumSlots
    /\ ci = {}
    /\ cmdtbl = [i \in Slots |-> [w |-> FALSE, prdtl |-> PrdtlInit, prdt |-> <<>>,
                                  fis |-> [command |-> 0, lba |-> <<0, 0, 0, 0, 0, 0>>,
                                          count |-> 0]]]
    /\ lock = 0
    /\ rc = <<>>
    /\ pc = [t \in Threads |-> "idle"]
    /\ req = [t \in Threads |-> None]
    /\ blen = [t \in Threads |-> 0]
    /\ offset = [t \in Threads |-> 0]
    /\ remaining = [t \in Threads |-> 0]
    /\ slot = [t \in Threads |-> 0]
    /\ cnt = [t \in Threads |-> 0]
    /\ irqOff = [t \in Threads |-> FALSE]
    /\ dst = [t \in Threads |-> <<>>]
    /\ ioerr = [t \in Threads |-> FALSE]
    /\ result = [t \in Threads |-> None]

\* A kernel panic halts every thread.
NoPanic == \A t \in Threads : pc[t] # "panic"

Request(t) == unwrap(req[t])

\* Arc::clone and drop of the request with the given id.
ArcClone(counts, id) == [counts EXCEPT ![id] = @ + 1]
ArcDrop(counts, id) == [counts EXCEPT ![id] = @ - 1]

\* AhciPort::read, entry: count = ceil(len / 512), Arc::new(DmaRequest::new),
\* and the clone handed to AhciPort::run_request, which sets offset = 0.
Read(t, sector, len) ==
    /\ NoPanic
    /\ pc[t] = "idle"
    /\ Len(rc) < MaxReads
    /\ LET count == (len + 512 - 1) \div 512
           r == DmaRequest_new(sector, count, nextFrame)
       IN  IF is_none(r)
           THEN /\ pc' = [pc EXCEPT ![t] = "panic"]
                /\ nextFrame' = NumFrames
                /\ UNCHANGED <<req, rc, blen, offset, dst, ioerr, result>>
           ELSE /\ req' = [req EXCEPT ![t] =
                              Some([id |-> Len(rc) + 1, sector |-> sector,
                                    count |-> count, buffer |-> unwrap(r).buffer])]
                /\ rc' = Append(rc, 2)
                /\ nextFrame' = nextFrame + Len(unwrap(r).buffer)
                /\ blen' = [blen EXCEPT ![t] = len]
                /\ offset' = [offset EXCEPT ![t] = 0]
                /\ dst' = [dst EXCEPT ![t] = <<>>]
                /\ ioerr' = [ioerr EXCEPT ![t] = FALSE]
                /\ result' = [result EXCEPT ![t] = None]
                /\ pc' = [pc EXCEPT ![t] = "loop"]
    /\ UNCHANGED <<cmds, free_cmds, ci, cmdtbl, lock, remaining, slot, cnt, irqOff,
                   dmaVars, probeVars, extVars>>

\* AhciPort::run_request: `while offset < request.count`, loop body entered:
\* IrqGuard::new() masks local interrupts.
IrqGuardNew(t) ==
    /\ NoPanic
    /\ pc[t] = "loop"
    /\ offset[t] < Request(t).count
    /\ irqOff' = [irqOff EXCEPT ![t] = TRUE]
    /\ pc' = [pc EXCEPT ![t] = "lock"]
    /\ UNCHANGED <<cmds, free_cmds, ci, cmdtbl, lock, rc, req, blen, offset,
                   remaining, slot, cnt, dst, nextFrame, ioerr, result, dmaVars, probeVars, extVars>>

\* self.inner.lock().run_request(request.clone(), offset), entry:
\* remaining = request.count - offset.
Lock(t) ==
    /\ NoPanic
    /\ pc[t] = "lock"
    /\ CanLock
    /\ lock' = t
    /\ rc' = ArcClone(rc, Request(t).id)
    /\ remaining' = [remaining EXCEPT ![t] = Request(t).count - offset[t]]
    /\ pc' = [pc EXCEPT ![t] = "sched"]
    /\ UNCHANGED <<cmds, free_cmds, ci, cmdtbl, req, blen, offset, slot, cnt,
                   irqOff, dst, nextFrame, ioerr, result, dmaVars, probeVars, extVars>>

\* AhciPortProtected::run_request, a free slot found: run_command programs the
\* slot and writes 1 << slot to the command-issue register (a write-1-to-set
\* register: the bits written as 0 keep their value).
Dispatch(t) ==
    /\ NoPanic
    /\ pc[t] = "sched"
    /\ remaining[t] > 0
    /\ is_some(find_free_slot)
    /\ LET i == unwrap(find_free_slot)
           count == CommandSectors(remaining[t])
           buffer == at_offset(Request(t), offset[t])
       IN  IF is_none(buffer) \/ RunCommandPanics(count, unwrap(buffer))
           THEN /\ pc' = [pc EXCEPT ![t] = "panic"]
                /\ UNCHANGED <<cmdtbl, ci, slot, cnt>>
           ELSE /\ cmdtbl' = [cmdtbl EXCEPT ![i] =
                                 RunCommandTable(@, into_command(Request(t)),
                                                 Request(t).sector + offset[t],
                                                 count, unwrap(buffer))]
                /\ ci' = ci \cup {i}
                /\ slot' = [slot EXCEPT ![t] = i]
                /\ cnt' = [cnt EXCEPT ![t] = count]
                /\ pc' = [pc EXCEPT ![t] = "wait"]
    /\ UNCHANGED <<cmds, free_cmds, lock, rc, req, blen, offset, remaining,
                   irqOff, dst, nextFrame, ioerr, result, dmaVars, probeVars, extVars>>

\* The device completes the command of slot i and clears its issue bit.
DeviceComplete(i) ==
    /\ i \in ci
    /\ ci' = ci \ {i}
    /\ UNCHANGED <<cmds, free_cmds, cmdtbl, lock, rc, pc, req, blen, offset,
                   remaining, slot, cnt, irqOff, dst, nextFrame, ioerr, result, dmaVars, probeVars, extVars>>

\* run_command's poll loop sees the bit clear and returns; run_request then
\* advances remaining and offset, stores a clone of the request in the slot
\* (dropping what the slot held) and decrements free_cmds (an underflow
\* panics under overflow checks).
PollDone(t) ==
    /\ NoPanic
    /\ pc[t] = "wait"
    /\ CommandCompleted(slot[t])
    /\ remaining' = [remaining EXCEPT ![t] = @ - cnt[t]]
    /\ offset' = [offset EXCEPT ![t] = @ + cnt[t]]
    /\ cmds' = [cmds EXCEPT ![slot[t]] = Some(Request(t).id)]
    /\ rc' = LET c == ArcClone(rc, Request(t).id)
             IN  IF is_some(cmds[slot[t]]) THEN ArcDrop(c, unwrap(cmds[slot[t]]))
                 ELSE c
    /\ IF free_cmds = 0
       THEN /\ pc' = [pc EXCEPT ![t] = "panic"]
            /\ UNCHANGED free_cmds
       ELSE /\ free_cmds' = free_cmds - 1
            /\ pc' = [pc EXCEPT ![t] = "sched"]
    /\ UNCHANGED <<ci, cmdtbl, lock, req, blen, slot, cnt, irqOff, dst, nextFrame, ioerr, result, dmaVars, probeVars, extVars>>

\* AhciPortProtected::run_request returns the offset reached: either no slot
\* is free (`return offset`) or nothing remains.
SchedReturn(t) ==
    /\ NoPanic
    /\ pc[t] = "sched"
    /\ remaining[t] = 0 \/ is_none(find_free_slot)
    /\ pc' = [pc EXCEPT ![t] = "unlock"]
    /\ UNCHANGED <<cmds, free_cmds, ci, cmdtbl, lock, rc, req, blen, offset,
                   remaining, slot, cnt, irqOff, dst, nextFrame, ioerr, result, dmaVars, probeVars, extVars>>

\* The callee's Arc is dropped and the MutexGuard released at the end of the
\* statement.
Unlock(t) ==
    /\ NoPanic
    /\ pc[t] = "unlock"
    /\ lock' = 0
    /\ rc' = ArcDrop(rc, Request(t).id)
    /\ remaining' = [remaining EXCEPT ![t] = 0]
    /\ slot' = [slot EXCEPT ![t] = 0]
    /\ cnt' = [cnt EXCEPT ![t] = 0]
    /\ pc' = [pc EXCEPT ![t] = "irqon"]
    /\ UNCHANGED <<cmds, free_cmds, ci, cmdtbl, req, blen, offset, irqOff, dst,
                   nextFrame, ioerr, result, dmaVars, probeVars, extVars>>

\* The IrqGuard is dropped at the end of the loop body.
IrqGuardDrop(t) ==
    /\ NoPanic
    /\ pc[t] = "irqon"
    /\ irqOff' = [irqOff EXCEPT ![t] = FALSE]
    /\ pc' = [pc EXCEPT ![t] = "loop"]
    /\ UNCHANGED <<cmds, free_cmds, ci, cmdtbl, lock, rc, req, blen, offset,
                   remaining, slot, cnt, dst, nextFrame, ioerr, result, dmaVars, probeVars, extVars>>

\* AhciPort::run_request leaves its loop and returns Some(count * 512),
\* dropping its Arc; AhciPort::read copies the result into the caller's
\* buffer and returns, dropping the caller's Arc.
ReadReturn(t) ==
    /\ NoPanic
    /\ pc[t] = "loop"
    /\ ~(offset[t] < Request(t).count)
    /\ result' = [result EXCEPT ![t] = Some(Request(t).count * SectorSize)]
    /\ dst' = [dst EXCEPT ![t] = copy_into(Request(t), blen[t])]
    /\ rc' = ArcDrop(ArcDrop(rc, Request(t).id), Request(t).id)
    /\ req' = [req EXCEPT ![t] = None]
    /\ offset' = [offset EXCEPT ![t] = 0]
    /\ pc' = [pc EXCEPT ![t] = "idle"]
    /\ UNCHANGED <<cmds, free_cmds, ci, cmdtbl, lock, blen, remaining, slot, cnt,
                   irqOff, nextFrame, ioerr, dmaVars, probeVars, extVars>>

DeviceStep == \E i \in Slots : DeviceComplete(i)

\* The steps of a thread inside a call of AhciPort::read.
CallStep(t) ==
    \/ IrqGuardNew(t)
    \/ Lock(t)
    \/ Dispatch(t)
    \/ PollDone(t)
    \/ SchedReturn(t)
    \/ Unlock(t)
    \/ IrqGuardDrop(t)
    \/ ReadReturn(t)

ThreadStep(t) ==
    \/ \E in \in ReadInputs : Read(t, in[1], in[2])
    \/ CallStep(t)

EngineNext ==
    \/ \E t \in Threads : ThreadStep(t)
    \/ DeviceStep

(***************************************************************************)
(* States of the parts a specification does not run.                       *)
(***************************************************************************)
DmaIdle ==
    /\ dmaIn = [sector |-> 0, count |-> 0]
    /\ dmaOut = [state |-> "none", buffer |-> <<>>]

ProbeIdle ==
    /\ ppc = "off"
    /\ ssts = 0
    /\ pcmd = {}
    /\ clb = None
    /\ fb = None
    /\ ctb = [i \in Slots |-> None]
    /\ hdrPrdtl = [i \in Slots |-> 0]
    /\ pidx = 0
    /\ probeRet = None

\* An ext2 volume not in use: no superblock read.
FsIdle ==
    /\ sb = [magic |-> 0, inode_size |-> 0, log_block_size |-> 0,
             blocks_count |-> 0, blocks_per_group |-> 0, inodes_per_group |-> 0]
    /\ checked = FALSE

ReadAtIdle ==
    /\ rpc = "off"
    /\ rsize = 0
    /\ roff = 0
    /\ rlen = 0
    /\ rcount = 0
    /\ rprogress = 0
    /\ rwrites = <<>>
    /\ rfail = FALSE
    /\ rret = None

MountIdle ==
    /\ mpc = "off"
    /\ bgdt = None
    /\ bgdtReads = 0
    /\ bgdtAt = None
    /\ icache = {}
    /\ fret = None
    /\ rootRet = None

LookupIdle ==
    /\ lpc = "off"
    /\ dir = <<>>
    /\ lname = ""
    /\ loff = 0
    /\ lret = None
    /\ lreads = <<>>

HbaIdle ==
    /\ hpc = "off"
    /\ ghc = {}
    /\ current_flags = {}
    /\ pi = {}
    /\ hidx = 0
    /\ hports = {}

\* The pty pair as Slave::new leaves it, with no ioctl made.
PtyIdle ==
    /\ termios = 0
    /\ window_size = 0
    /\ attached = FALSE
    /\ ucell = 0
    /\ plog = 0
    /\ pcalls = 0
    /\ pcall = None
    /\ mbuf = <<>>
    /\ pwrites = <<>>
    /\ preads = <<>>
    /\ slaves = {}
    /\ PTY_ID = 0
    /\ ptsRet = None

CmdIdle ==
    /\ cpc = "off"
    /\ cin = None
    /\ cold = None
    /\ ctbl = None

MoreIdle == PtyIdle /\ CmdIdle

ExtIdle == FsIdle /\ ReadAtIdle /\ MountIdle /\ LookupIdle /\ HbaIdle /\ MoreIdle

Init == EngineInit /\ nextFrame = 0 /\ DmaIdle /\ ProbeIdle /\ ExtIdle

Next == EngineNext

Spec == Init /\ [][Next]_vars

\* No thread has to call read, but a thread inside a call that can take a
\* step again and again does take one (so a thread spinning on the lock gets
\* it when it is released again and again), and the device completes every
\* command it was issued.
FairSpec ==
    /\ Spec
    /\ \A t \in Threads : SF_vars(CallStep(t))
    /\ WF_vars(DeviceStep)

(***************************************************************************)
(* SpecIo: the port engine against a device that can fail a command.  The  *)
(* device reports the failure in the port's interrupt-status and           *)
(* task-file registers (HbaPort.is, HbaPort.tfd), which run_command never  *)
(* reads: its loop polls the command-issue register only.  The device      *)
(* either ends the failed command, clearing its command-issue bit, or      *)
(* leaves it issued.                                                       *)
(***************************************************************************)
DeviceFail(t, ends) ==
    /\ NoPanic
    /\ pc[t] = "wait"
    /\ slot[t] \in ci
    /\ ioerr' = [ioerr EXCEPT ![t] = TRUE]
    /\ ci' = IF ends THEN ci \ {slot[t]} ELSE ci
    /\ UNCHANGED <<cmds, free_cmds, cmdtbl, lock, rc, pc, req, blen, offset,
                   remaining, slot, cnt, irqOff, dst, result, nextFrame,
                   dmaVars, probeVars, extVars>>

DeviceFailStep == \E t \in Threads, ends \in BOOLEAN : DeviceFail(t, ends)

IoNext ==
    \/ EngineNext
    \/ DeviceFailStep

SpecIo == Init /\ [][IoNext]_vars

(***************************************************************************)
(* SpecDma: DmaRequest::new on its own, for every sector count up to       *)
(* MaxSectors, with the frame pool fresh or nearly used up.                *)
(***************************************************************************)
DmaSectors == {0, Lba28Max + 1}
DmaFrameStarts == {0, NumFrames - 2}

DmaInit ==
    /\ dmaIn \in [sector : DmaSectors, count : 0..MaxSectors]
    /\ dmaOut = [state |-> "none", buffer |-> <<>>]
    /\ nextFrame \in DmaFrameStarts
    /\ EngineInit
    /\ ProbeIdle
    /\ ExtIdle

DmaNew ==
    /\ dmaOut.state = "none"
    /\ LET r == DmaRequest_new(dmaIn.sector, dmaIn.count, nextFrame)
       IN  IF is_none(r)
           THEN /\ dmaOut' = [state |-> "panic", buffer |-> <<>>]
                /\ nextFrame' = NumFrames
           ELSE /\ dmaOut' = [state |-> "done", buffer |-> unwrap(r).buffer]
                /\ nextFrame' = nextFrame + Len(unwrap(r).buffer)
    /\ UNCHANGED <<dmaIn, engineVars, probeVars, extVars>>

SpecDma == DmaInit /\ [][DmaNew]_vars

(***************************************************************************)
(* SpecProbe: HbaPort::probe on one port, and HbaPort::start when the      *)
(* device is there, against the port's command register.                   *)
(***************************************************************************)
\* The bits of HbaPortCmd the bring-up reads or writes.
CmdBits == {"ST", "FRE", "FR", "CR"}

\* HbaSataStatus::device_detection: bits 0..=3; None is the panic on a
\* value that is none of None, PresentNotE, PresentAndE, Offline.
device_detection(status) ==
    IF status % 16 \in {0, 1, 3, 4} THEN Some(status % 16) ELSE None

\* HbaSataStatus::interface_power_management: bits 8..=11; None is the panic
\* on a value that is none of None, Active, Partial, Slumber, DevSleep.
interface_power_management(status) ==
    IF (status \div 256) % 16 \in {0, 1, 2, 6, 8}
    THEN Some((status \div 256) % 16) ELSE None

\* `if let (HbaPortDd::PresentAndE, HbaPortIpm::Active) = (dd, ipm)`
ProbeMatches_Mut(dd, ipm) == dd = HbaPortDd_PresentAndE \/ ipm = HbaPortIpm_Active
ProbeMatches(dd, ipm) == dd = HbaPortDd_PresentAndE /\ ipm = HbaPortIpm_Active

\* stop_cmd's loop ends when neither FR nor CR is set.
EngineHalted_Mut(c) == TRUE
EngineHalted(c) == c \cap {"FR", "CR"} = {}

\* The SATA status values: every detection and power field, two values of
\* the speed field between them.
SstsValues == {det + 16 * spd + 256 * ipm : det \in 0..15, spd \in {0, 1}, ipm \in 0..15}
ProbeFrameStarts == {0, NumFrames - 20}

ProbeInit ==
    /\ ppc = "probe"
    /\ ssts \in SstsValues
    /\ pcmd \in SUBSET CmdBits
    /\ clb = None
    /\ fb = None
    /\ ctb = [i \in Slots |-> None]
    /\ hdrPrdtl = [i \in Slots |-> 0]
    /\ pidx = 0
    /\ probeRet = None
    /\ nextFrame \in ProbeFrameStarts
    /\ EngineInit
    /\ DmaIdle
    /\ ExtIdle

\* HbaPort::probe: reads the SATA status, decodes the power field and then
\* the detection field, and either enters start() or returns false.
Probe ==
    /\ ppc = "probe"
    /\ LET ipm == interface_power_management(ssts)
           dd == device_detection(ssts)
       IN  IF is_none(ipm) \/ is_none(dd)
           THEN ppc' = "panic_ssts" /\ UNCHANGED probeRet
           ELSE IF ProbeMatches(unwrap(dd), unwrap(ipm))
                THEN ppc' = "stop_cmd" /\ UNCHANGED probeRet
                ELSE ppc' = "done" /\ probeRet' = Some(FALSE)
    /\ UNCHANGED <<ssts, pcmd, clb, fb, ctb, hdrPrdtl, pidx, nextFrame,
                   engineVars, dmaVars, extVars>>

\* stop_cmd: FRE and ST are removed from the command register.
StopCmdWrite ==
    /\ ppc = "stop_cmd"
    /\ pcmd' = pcmd \ {"FRE", "ST"}
    /\ ppc' = "stop_wait"
    /\ UNCHANGED <<ssts, clb, fb, ctb, hdrPrdtl, pidx, probeRet, nextFrame,
                   engineVars, dmaVars, extVars>>

\* stop_cmd: the wait loop is left once FR and CR read as clear.
StopCmdWait ==
    /\ ppc = "stop_wait"
    /\ EngineHalted(pcmd)
    /\ ppc' = "clb"
    /\ UNCHANGED <<ssts, pcmd, clb, fb, ctb, hdrPrdtl, pidx, probeRet, nextFrame,
                   engineVars, dmaVars, extVars>>

\* start: a frame for the command list; self.clb.set(...).
SetClb ==
    /\ ppc = "clb"
    /\ IF is_none(allocate_frame(nextFrame))
       THEN ppc' = "panic_alloc" /\ UNCHANGED <<clb, nextFrame>>
       ELSE /\ clb' = allocate_frame(nextFrame)
            /\ nextFrame' = nextFrame + 1
            /\ ppc' = "fb"
    /\ UNCHANGED <<ssts, pcmd, fb, ctb, hdrPrdtl, pidx, probeRet, engineVars, dmaVars, extVars>>

\* start: a frame for the received FISes; self.fb.set(...).
SetFb ==
    /\ ppc = "fb"
    /\ IF is_none(allocate_frame(nextFrame))
       THEN ppc' = "panic_alloc" /\ UNCHANGED <<fb, nextFrame>>
       ELSE /\ fb' = allocate_frame(nextFrame)
            /\ nextFrame' = nextFrame + 1
            /\ ppc' = "tables"
    /\ UNCHANGED <<ssts, pcmd, clb, ctb, hdrPrdtl, pidx, probeRet, engineVars, dmaVars, extVars>>

\* start: one iteration of `for i in 0..32`: a frame for the command table
\* of slot i, prdtl = 8 and ctb = the frame in its command header.
SetTable ==
    /\ ppc = "tables"
    /\ pidx < NumSlots
    /\ IF is_none(allocate_frame(nextFrame))
       THEN ppc' = "panic_alloc" /\ UNCHANGED <<ctb, hdrPrdtl, pidx, nextFrame>>
       ELSE /\ ctb' = [ctb EXCEPT ![pidx] = allocate_frame(nextFrame)]
            /\ hdrPrdtl' = [hdrPrdtl EXCEPT ![pidx] = PrdtlInit]
            /\ nextFrame' = nextFrame + 1
            /\ pidx' = pidx + 1
            /\ UNCHANGED ppc
    /\ UNCHANGED <<ssts, pcmd, clb, fb, probeRet, engineVars, dmaVars, extVars>>

\* start_cmd, after the loop over the slots: waits while CR is set, then
\* sets FRE and ST; start returns and probe returns true.
StartCmd ==
    /\ ppc = "tables"
    /\ pidx = NumSlots
    /\ "CR" \notin pcmd
    /\ pcmd' = pcmd \cup {"FRE", "ST"}
    /\ probeRet' = Some(TRUE)
    /\ ppc' = "done"
    /\ UNCHANGED <<ssts, clb, fb, ctb, hdrPrdtl, pidx, nextFrame, engineVars, dmaVars, extVars>>

\* The HBA: the command list runs (CR) while ST is set and stops some time
\* after ST is cleared; likewise FIS receive (FR) and FRE.
HwEngineStops ==
    /\ \E b \in {<<"ST", "CR">>, <<"FRE", "FR">>} :
          /\ b[1] \notin pcmd
          /\ b[2] \in pcmd
          /\ pcmd' = pcmd \ {b[2]}
    /\ UNCHANGED <<ppc, ssts, clb, fb, ctb, hdrPrdtl, pidx, probeRet, nextFrame,
                   engineVars, dmaVars, extVars>>

HwEngineRuns ==
    /\ \E b \in {<<"ST", "CR">>, <<"FRE", "FR">>} :
          /\ b[1] \in pcmd
          /\ b[2] \notin pcmd
          /\ pcmd' = pcmd \cup {b[2]}
    /\ UNCHANGED <<ppc, ssts, clb, fb, ctb, hdrPrdtl, pidx, probeRet, nextFrame,
                   engineVars, dmaVars, extVars>>

ProbeNext ==
    \/ Probe
    \/ StopCmdWrite
    \/ StopCmdWait
    \/ SetClb
    \/ SetFb
    \/ SetTable
    \/ StartCmd
    \/ HwEngineStops
    \/ HwEngineRuns

SpecProbe == ProbeInit /\ [][ProbeNext]_vars

(***************************************************************************)
(* The ext2 driver (src/aero_kernel/src/fs/ext2/mod.rs).                   *)
(***************************************************************************)
MAGIC == 61267
BaseBlockSize == 1024
NumDataPtrs == 15
DiskINodeSize == 128
DiskDirEntrySize == 8
ROOT_INODE_ID == 2

\* SuperBlock::block_size: 1024usize << log_block_size, in 64 bits: from a
\* shift of 54 on every set bit is shifted out and the result is 0.  (The
\* superblocks here have log_block_size < 64, a valid shift amount.)
block_size(superblock) ==
    IF superblock.log_block_size >= 54 THEN 0
    ELSE BaseBlockSize * (2 ^ superblock.log_block_size)

\* SuperBlock::bgdt_sector: None for the unreachable!() arm.
bgdt_sector(superblock) ==
    LET x == block_size(superblock)
    IN  IF x = 1024 THEN Some(4)
        ELSE IF x > 1024 THEN Some(x \div 512)
        ELSE None

\* Everything but the ext2 volume at rest.
AhciIdle == EngineInit /\ nextFrame = 0 /\ DmaIdle /\ ProbeIdle /\ HbaIdle /\ MoreIdle
ahciVars == <<engineVars, nextFrame, dmaVars, probeVars, hbaVars, moreVars>>

\* A superblock of a well-formed volume with the given block size.
SaneSuperBlocks ==
    [magic : {MAGIC}, inode_size : {DiskINodeSize}, log_block_size : {0, 1},
     blocks_count : {8192}, blocks_per_group : {8192}, inodes_per_group : {8}]

(***************************************************************************)
(* SpecReadAt: INode::read_at on an inode of recorded size rsize, called   *)
(* with an offset and a destination of rlen bytes.  rwrites lists the      *)
(* copies made into the destination: `len` bytes at buffer[at ..], of      *)
(* bytes the device delivered (init) or of the uninitialised chunk a       *)
(* failed device read left behind.                                         *)
(***************************************************************************)
ReadAtSizes == {0, 100, 1024, 3000, 16000, 31000}
ReadAtOffsets == {0, 100, 1000, 1024, 2048, 15000, 20000, 30000}
ReadAtLens == {0, 1, 100, 1024, 2500}

ReadAtInit ==
    /\ sb \in SaneSuperBlocks
    /\ checked \in BOOLEAN
    /\ rpc = "enter"
    /\ rsize \in ReadAtSizes
    /\ roff \in ReadAtOffsets
    /\ rlen \in ReadAtLens
    /\ rcount = 0
    /\ rprogress = 0
    /\ rwrites = <<>>
    /\ rfail = FALSE
    /\ rret = None
    /\ MountIdle
    /\ LookupIdle
    /\ AhciIdle

\* count = min(size_lower as usize - offset, buffer.len()).  With the offset
\* beyond the size the subtraction overflows: a panic in a build with
\* overflow checks, and otherwise a wrapped value of at least 2^64 - 2^32,
\* beyond the length of any slice, so that the minimum is buffer.len().
ReadAtEnter ==
    /\ rpc = "enter"
    /\ IF roff > rsize
       THEN IF checked
            THEN rpc' = "panic" /\ UNCHANGED rcount
            ELSE rpc' = "loop" /\ rcount' = rlen
       ELSE rpc' = "loop" /\ rcount' = Min(rsize - roff, rlen)
    /\ UNCHANGED <<rsize, roff, rlen, rprogress, rwrites, rfail, rret, fsVars,
                   mountVars, lookupVars, ahciVars>>

\* chunk = count - progress, cut down to block_size - loc.
read_at_chunk_Mut(left, loc, bs) == Min(left, bs)
read_at_chunk(left, loc, bs) == Min(left, bs - loc)

\* One iteration of `while progress < count`: the device read of the chunk,
\* from byte data_ptr[ptr] * block_size + loc of the device,
\* succeeds or fails, its result is dropped, and the chunk is copied into
\* the destination.  data_ptr has 15 entries; indexing past them panics.
ReadAtChunk(ok) ==
    /\ rpc = "loop"
    /\ rprogress < rcount
    /\ LET block == (roff + rprogress) \div block_size(sb)
           loc == (roff + rprogress) % block_size(sb)
           chunk == read_at_chunk(rcount - rprogress, loc, block_size(sb))
       IN  IF block >= NumDataPtrs
           THEN rpc' = "panic" /\ UNCHANGED <<rprogress, rwrites, rfail>>
           ELSE /\ rwrites' = Append(rwrites,
                                     [at |-> rprogress, len |-> chunk, init |-> ok,
                                      ptr |-> block, loc |-> loc])
                /\ rprogress' = rprogress + chunk
                /\ rfail' = (rfail \/ ~ok)
                /\ UNCHANGED rpc
    /\ UNCHANGED <<rsize, roff, rlen, rcount, rret, fsVars,
                   mountVars, lookupVars, ahciVars>>

\* The loop ends: Ok(count).
ReadAtReturn ==
    /\ rpc = "loop"
    /\ ~(rprogress < rcount)
    /\ rret' = Some(rcount)
    /\ rpc' = "done"
    /\ UNCHANGED <<rsize, roff, rlen, rcount, rprogress, rwrites, rfail, fsVars,
                   mountVars, lookupVars, ahciVars>>

ReadAtNext ==
    \/ ReadAtEnter
    \/ \E ok \in BOOLEAN : ReadAtChunk(ok)
    \/ ReadAtReturn

SpecReadAt == ReadAtInit /\ [][ReadAtNext]_vars

(***************************************************************************)
(* SpecMount: Ext2::new on a device whose superblock is sb, then           *)
(* Ext2::find_inode and root_dir on the volume it returned.  A device read *)
(* answers (ok) or fails.                                                  *)
(***************************************************************************)
\* CeilDiv::ceil_div of crate::utils, for a divisor that is not zero.
ceil_div(a, b) == (a + b - 1) \div b

\* SuperBlock::bgdt_len.
bgdt_len(superblock) == ceil_div(superblock.blocks_count, superblock.blocks_per_group)

\* `superblock.magic != SuperBlock::MAGIC` does not hold.
MagicOk_Mut(superblock) == TRUE
MagicOk(superblock) == superblock.magic = MAGIC

MountSuperBlocks ==
    [magic : {MAGIC, MAGIC - 1, 0}, inode_size : {DiskINodeSize, 2 * DiskINodeSize},
     log_block_size : {0, 1, 2, 54}, blocks_count : {0, 1, 8192, 8193},
     blocks_per_group : {0, 8192}, inodes_per_group : {0, 1, 2, 8}]

FindIds == {0, 1, ROOT_INODE_ID, 8, 9, 17}

MountInit ==
    /\ sb \in MountSuperBlocks
    /\ checked \in BOOLEAN
    /\ mpc = "new"
    /\ bgdt = None
    /\ bgdtReads = 0
    /\ bgdtAt = None
    /\ icache = {}
    /\ fret = None
    /\ rootRet = None
    /\ ReadAtIdle
    /\ LookupIdle
    /\ AhciIdle

\* block.device().read_block(2, superblock)?
SuperBlockRead(ok) ==
    /\ mpc = "new"
    /\ mpc' = IF ok THEN "magic" ELSE "none_superblock_read"
    /\ UNCHANGED <<bgdt, bgdtReads, bgdtAt, icache, fret, rootRet, fsVars, readAtVars,
                   lookupVars, ahciVars>>

\* if superblock.magic != SuperBlock::MAGIC { return None; }
CheckMagic ==
    /\ mpc = "magic"
    /\ mpc' = IF MagicOk(sb) THEN "inode_size" ELSE "none_magic"
    /\ UNCHANGED <<bgdt, bgdtReads, bgdtAt, icache, fret, rootRet, fsVars, readAtVars,
                   lookupVars, ahciVars>>

\* assert_eq!(superblock.inode_size, size_of::<DiskINode>()), then
\* superblock.bgdt_len(), whose division panics on a zero blocks_per_group.
CheckInodeSize ==
    /\ mpc = "inode_size"
    /\ mpc' = IF sb.inode_size # DiskINodeSize THEN "panic_inode_size"
              ELSE IF sb.blocks_per_group = 0 THEN "panic_bgdt_len"
              ELSE "bgdt"
    /\ UNCHANGED <<bgdt, bgdtReads, bgdtAt, icache, fret, rootRet, fsVars, readAtVars,
                   lookupVars, ahciVars>>

\* block.device().read_block(superblock.bgdt_sector(), bgdt)?, then
\* Some(Arc::new_cyclic(..)).
BgdtRead(ok) ==
    /\ mpc = "bgdt"
    /\ IF is_none(bgdt_sector(sb))
       THEN mpc' = "panic_bgdt_sector" /\ UNCHANGED <<bgdt, bgdtReads, bgdtAt>>
       ELSE /\ bgdtReads' = bgdtReads + 1
            /\ bgdtAt' = bgdt_sector(sb)
            /\ IF ok
               THEN mpc' = "mounted" /\ bgdt' = Some(bgdt_len(sb))
               ELSE mpc' = "none_bgdt_read" /\ UNCHANGED bgdt
    /\ UNCHANGED <<icache, fret, rootRet, fsVars, readAtVars, lookupVars, ahciVars>>

\* INode::new(ext2, id), with the answer `ok` of the device to the read of
\* the inode: "some", "none", or "panic" for a fault.  With id = 0 and no
\* debug assertions, id - 1 wraps to 2^64 - 1, and the block group
\* (2^64 - 1) / inodes_per_group is at least 2^32, beyond every table.
INode_new(id, ok) ==
    IF id = 0 /\ checked THEN "panic"
    ELSE IF id \in icache THEN "some"
    ELSE IF sb.inodes_per_group = 0 THEN "panic"
    ELSE IF id = 0 THEN "panic"
    ELSE IF (id - 1) \div sb.inodes_per_group >= unwrap(bgdt) THEN "panic"
    ELSE IF ~ok THEN "none"
    ELSE "some"

\* The device reads INode::new(id) makes when it does not fault: none when
\* the inode is cached, else one of size_of::<DiskINode>() bytes at byte
\* `at` of the inode table of block group `group`, that is, at device byte
\* bgdt[group].inode_table * block_size + at.
INodeReads_Mut(id) ==
    <<[group |-> (id - 1) \div sb.inodes_per_group,
       at |-> ((id - 1) % sb.inodes_per_group) * DiskINodeSize,
       len |-> DiskINodeSize]>>
INodeReads(id) ==
    IF id \in icache THEN <<>>
    ELSE <<[group |-> (id - 1) \div sb.inodes_per_group,
            at |-> ((id - 1) % sb.inodes_per_group) * DiskINodeSize,
            len |-> DiskINodeSize]>>

\* Ext2::find_inode(id).
FindInode(id, ok) ==
    /\ mpc = "mounted"
    /\ LET res == INode_new(id, ok)
       IN  /\ fret' = Some([id |-> id, ok |-> ok, res |-> res,
                            reads |-> IF res = "panic" THEN <<>> ELSE INodeReads(id)])
           /\ icache' = IF res = "some" THEN icache \cup {id} ELSE icache
           /\ mpc' = IF res = "panic" THEN "panic_find_inode" ELSE mpc
    /\ UNCHANGED <<bgdt, bgdtReads, bgdtAt, rootRet, fsVars, readAtVars, lookupVars, ahciVars>>

\* FileSystem::root_dir: find_inode(ROOT_INODE_ID).expect(..), then
\* DirEntry::new_root(inode, "/").
RootDir(ok) ==
    /\ mpc = "mounted"
    /\ LET res == INode_new(ROOT_INODE_ID, ok)
       IN  /\ rootRet' = Some([ok |-> ok, name |-> IF res = "some" THEN "/" ELSE "",
                               inode |-> IF res = "some" THEN ROOT_INODE_ID ELSE 0])
           /\ icache' = IF res = "some" THEN icache \cup {ROOT_INODE_ID} ELSE icache
           /\ mpc' = IF res = "some" THEN mpc ELSE "panic_root_dir"
    /\ UNCHANGED <<bgdt, bgdtReads, bgdtAt, fret, fsVars, readAtVars, lookupVars, ahciVars>>

MountNext ==
    \/ \E ok \in BOOLEAN : SuperBlockRead(ok)
    \/ CheckMagic
    \/ CheckInodeSize
    \/ \E ok \in BOOLEAN : BgdtRead(ok)
    \/ \E id \in FindIds, ok \in BOOLEAN : FindInode(id, ok)
    \/ \E ok \in BOOLEAN : RootDir(ok)

SpecMount == MountInit /\ [][MountNext]_vars

(***************************************************************************)
(* SpecLookup: INode::lookup(dir, name) on a directory of a mounted        *)
(* volume.  dir lists the directory's entries as they lie on the device,   *)
(* one after the other from offset 0 of the directory's first block: the   *)
(* inode number, the entry size and the name of each.  An entry with inode *)
(* number 0 is an unused entry.  The device answers the reads of the       *)
(* entries; the read of an inode answers (ok) or fails.                    *)
(***************************************************************************)
MaxDirLen == 3

DirEntries == [inode : {0, ROOT_INODE_ID, 3, 17}, entry_size : {12, 16},
               name : {"a", "missing"}]

RECURSIVE SeqsUpTo(_, _)
SeqsUpTo(S, n) ==
    IF n = 0 THEN {<<>>}
    ELSE LET shorter == SeqsUpTo(S, n - 1)
         IN  shorter \cup {Append(d, e) : d \in {x \in shorter : Len(x) = n - 1}, e \in S}

Dirs == SeqsUpTo(DirEntries, MaxDirLen)

\* The offset of the k-th entry, and the size of the directory file.
RECURSIVE EntryOffset(_, _)
EntryOffset(d, k) == IF k = 1 THEN 0 ELSE EntryOffset(d, k - 1) + d[k - 1].entry_size

DirSize(d) == EntryOffset(d, Len(d) + 1)

\* The DiskDirEntry and name read at offset `off`: the first entry that
\* starts there (an entry of size 0 hides the ones after it).
EntryAt(d, off) ==
    d[CHOOSE k \in 1..Len(d) :
         EntryOffset(d, k) = off /\ \A j \in 1..(k - 1) : EntryOffset(d, j) # off]

\* The calls of DirEntryIter::next followed in one iteration.
MaxVisits == MaxDirLen + 2

EntryNotFound == [found |-> FALSE, name |-> "", inode |-> 0]

LookupInit ==
    /\ sb \in SaneSuperBlocks
    /\ checked \in BOOLEAN
    /\ mpc = "mounted"
    /\ bgdt = Some(bgdt_len(sb))
    /\ bgdtReads = 1
    /\ bgdtAt = bgdt_sector(sb)
    /\ icache = {}
    /\ fret = None
    /\ rootRet = None
    /\ lpc = "iter"
    /\ dir \in Dirs
    /\ lname = "missing"
    /\ loff = 0
    /\ lret = None
    /\ lreads = <<>>
    /\ ReadAtIdle
    /\ AhciIdle

\* One call of DirEntryIter::next by Iterator::find, with the closure's
\* comparison of the name, and ok_or(EntryNotFound) when next returns None:
\* at the end of the file, or when make_dir_entry finds no inode.
LookupStep(ok) ==
    /\ lpc = "iter"
    /\ Len(lreads) < MaxVisits
    /\ IF loff + DiskDirEntrySize > DirSize(dir)
       THEN /\ lret' = Some(EntryNotFound)
            /\ lpc' = "done"
            /\ UNCHANGED <<loff, icache, lreads>>
       ELSE LET entry == EntryAt(dir, loff)
                res == INode_new(entry.inode, ok)
            IN  /\ lreads' = Append(lreads, [offset |-> loff,
                                             name_size |-> Len(entry.name)])
                /\ loff' = loff + entry.entry_size
                /\ icache' = IF res = "some" THEN icache \cup {entry.inode} ELSE icache
                /\ IF res = "panic"
                   THEN lpc' = "panic" /\ UNCHANGED lret
                   ELSE IF res = "none"
                   THEN lpc' = "done" /\ lret' = Some(EntryNotFound)
                   ELSE IF entry.name = lname
                   THEN /\ lpc' = "done"
                        /\ lret' = Some([found |-> TRUE, name |-> entry.name,
                                         inode |-> entry.inode])
                   ELSE UNCHANGED <<lpc, lret>>
    /\ UNCHANGED <<dir, lname, mpc, bgdt, bgdtReads, bgdtAt, fret, rootRet, fsVars,
                   readAtVars, ahciVars>>

LookupNext == \E ok \in BOOLEAN : LookupStep(ok)

SpecLookup == LookupInit /\ [][LookupNext]_vars

\* The same iteration over directories whose entries also have a size
\* field of 0, or one that reaches the end of a 1 KiB block or spans one.
IterEntries == [inode : {ROOT_INODE_ID}, entry_size : {0, 12, 1012, 1024},
                name : {"a"}]

DirIterInit ==
    /\ sb \in SaneSuperBlocks
    /\ checked \in BOOLEAN
    /\ mpc = "mounted"
    /\ bgdt = Some(bgdt_len(sb))
    /\ bgdtReads = 1
    /\ bgdtAt = bgdt_sector(sb)
    /\ icache = {}
    /\ fret = None
    /\ rootRet = None
    /\ lpc = "iter"
    /\ dir \in SeqsUpTo(IterEntries, MaxDirLen)
    /\ lname = "missing"
    /\ loff = 0
    /\ lret = None
    /\ lreads = <<>>
    /\ ReadAtIdle
    /\ AhciIdle

SpecDirIter == DirIterInit /\ [][LookupNext]_vars

(***************************************************************************)
(* SpecHba: AhciProtected::start_hba on an HBA whose global host control   *)
(* register holds ghc and whose ports-implemented register holds pi.  Each *)
(* implemented port is probed with the SATA status it then shows.          *)
(***************************************************************************)
HbaHostContBits == {"HR", "IE", "MRSM", "AE"}

\* The flags start_hba ors into the register.
EnableFlags == {"IE"}

\* clb, fb and one command table per slot.
StartFrames == 2 + NumSlots

HbaPortsImplemented == {{}, {0}, {0, 1}, {NumSlots - 1}}
HbaSstsValues == {0, 2, 3 + 256, 3 + 512, 1 + 256, 3 + 256 * 3}

HbaInit ==
    /\ hpc = "start"
    /\ ghc \in SUBSET HbaHostContBits
    /\ current_flags = {}
    /\ pi \in HbaPortsImplemented
    /\ hidx = 0
    /\ hports = {}
    /\ EngineInit
    /\ nextFrame \in {0, NumFrames - StartFrames - 1}
    /\ DmaIdle
    /\ ProbeIdle
    /\ FsIdle
    /\ ReadAtIdle
    /\ MountIdle
    /\ LookupIdle
    /\ MoreIdle

\* current_flags = global_host_control.get();
\* global_host_control.set(current_flags | HbaHostCont::IE).
StartHbaEnable ==
    /\ hpc = "start"
    /\ current_flags' = ghc
    /\ ghc' = ghc \cup EnableFlags
    /\ hpc' = "ports"
    /\ UNCHANGED <<pi, hidx, hports, engineVars, nextFrame, dmaVars, probeVars,
                   fsVars, readAtVars, mountVars, lookupVars, moreVars>>

\* One iteration of `for i in 0..32`: an implemented port is probed, and a
\* port that probe started is recorded in self.ports.  probe panics on a
\* reserved status value, and start on an exhausted frame pool.
StartHbaPort(status) ==
    /\ hpc = "ports"
    /\ hidx < NumSlots
    /\ IF hidx \notin pi
       THEN hidx' = hidx + 1 /\ UNCHANGED <<hpc, hports, nextFrame>>
       ELSE LET ipm == interface_power_management(status)
                dd == device_detection(status)
            IN  IF is_none(ipm) \/ is_none(dd)
                THEN hpc' = "panic" /\ UNCHANGED <<hidx, hports, nextFrame>>
                ELSE IF ~ProbeMatches(unwrap(dd), unwrap(ipm))
                THEN hidx' = hidx + 1 /\ UNCHANGED <<hpc, hports, nextFrame>>
                ELSE IF nextFrame + StartFrames > NumFrames
                THEN /\ hpc' = "panic"
                     /\ nextFrame' = NumFrames
                     /\ UNCHANGED <<hidx, hports>>
                ELSE /\ nextFrame' = nextFrame + StartFrames
                     /\ hports' = hports \cup {hidx}
                     /\ hidx' = hidx + 1
                     /\ UNCHANGED hpc
    /\ UNCHANGED <<ghc, current_flags, pi, engineVars, dmaVars, probeVars,
                   fsVars, readAtVars, mountVars, lookupVars, moreVars>>

StartHbaDone ==
    /\ hpc = "ports"
    /\ hidx = NumSlots
    /\ hpc' = "done"
    /\ UNCHANGED <<ghc, current_flags, pi, hidx, hports, engineVars, nextFrame,
                   dmaVars, probeVars, fsVars, readAtVars, mountVars, lookupVars, moreVars>>

HbaNext ==
    \/ StartHbaEnable
    \/ \E status \in HbaSstsValues : StartHbaPort(status)
    \/ StartHbaDone

SpecHba == HbaInit /\ [][HbaNext]_vars

(***************************************************************************)
(* The pty pair (drivers/pty.rs): device-control requests on the slave and *)
(* on the master.  A request is a command and an argument; the argument is *)
(* a user pointer, which is either readable (and then holds or receives a  *)
(* value) or not.  Commands are named as the source names them.            *)
(***************************************************************************)
MaxPtyValue == 1
MaxCalls == 3
PtyValues == 0..MaxPtyValue

PtyCommands == {"TIOCGWINSZ", "TCGETS", "TCSETSF", "TIOCSCTTY",
                "TIOCGPTN", "TIOCSWINSZ", "TCSETS", "FIONREAD"}

\* Master.id, from PTY_ID.fetch_add in Master::new: the first pair made.
MasterId == 0

\* log::Level, most severe first.
Levels == <<"Error", "Warn", "Info", "Debug", "Trace">>
LevelRank(level) == CHOOSE i \in 1..Len(Levels) : Levels[i] = level

\* AeroLogger::enabled: metadata.level() <= Level::Info.
enabled(level) == LevelRank(level) <= LevelRank("Info")

\* The `_` arm of Slave::ioctl.
SlaveOther_Mut == "Ok(0)"
SlaveOther == "Err(NotSupported)"

PtyInit ==
    /\ PtyIdle
    /\ CmdIdle
    /\ EngineInit /\ nextFrame = 0 /\ DmaIdle /\ ProbeIdle
    /\ FsIdle /\ ReadAtIdle /\ MountIdle /\ LookupIdle /\ HbaIdle

PtyRunning == pcalls < MaxCalls /\ (is_some(pcall) => unwrap(pcall).ret # "panic")

PtyCalled(dev, command, ret) ==
    /\ pcalls' = pcalls + 1
    /\ pcall' = Some([dev |-> dev, command |-> command, ret |-> ret])

\* Slave::ioctl(command, arg): `valid` says whether arg can be read as the
\* structure the command wants, v is what it holds then, and leader whether
\* the calling task is a session leader.
SlaveIoctl(command, valid, v, leader) ==
    /\ PtyRunning
    /\ IF command \in {"TIOCGWINSZ", "TCGETS", "TCSETSF"} /\ ~valid
       THEN /\ PtyCalled("slave", command, "Err(ReadErr)")
            /\ UNCHANGED <<termios, window_size, attached, ucell>>
       ELSE CASE command = "TIOCGWINSZ" ->
                   /\ ucell' = window_size
                   /\ PtyCalled("slave", command, "Ok(0)")
                   /\ UNCHANGED <<termios, window_size, attached>>
              [] command = "TCGETS" ->
                   /\ ucell' = termios
                   /\ PtyCalled("slave", command, "Ok(0)")
                   /\ UNCHANGED <<termios, window_size, attached>>
              [] command = "TCSETSF" ->
                   /\ termios' = v
                   /\ PtyCalled("slave", command, "Ok(0)")
                   /\ UNCHANGED <<window_size, attached, ucell>>
              [] command = "TIOCSCTTY" ->
                   IF leader
                   THEN /\ attached' = TRUE
                        /\ PtyCalled("slave", command, "Ok(0)")
                        /\ UNCHANGED <<termios, window_size, ucell>>
                   ELSE /\ PtyCalled("slave", command, "panic")
                        /\ UNCHANGED <<termios, window_size, attached, ucell>>
              [] OTHER ->
                   /\ PtyCalled("slave", command, SlaveOther)
                   /\ UNCHANGED <<termios, window_size, attached, ucell>>
    /\ UNCHANGED <<plog, ptyIoVars, ptsVars, cmdVars, engineVars, nextFrame, dmaVars, probeVars,
                   fsVars, readAtVars, mountVars, lookupVars, hbaVars>>

\* Master::ioctl(command, arg).
MasterIoctl(command, valid, v) ==
    /\ PtyRunning
    /\ IF command \in {"TIOCGPTN", "TIOCSWINSZ"} /\ ~valid
       THEN /\ PtyCalled("master", command, "Err(ReadErr)")
            /\ UNCHANGED <<window_size, ucell, plog>>
       ELSE /\ PtyCalled("master", command, "Ok(0)")
            /\ CASE command = "TIOCGPTN" ->
                      ucell' = MasterId /\ UNCHANGED <<window_size, plog>>
                 [] command = "TIOCSWINSZ" ->
                      window_size' = v /\ UNCHANGED <<ucell, plog>>
                 [] OTHER ->
                      /\ plog' = IF enabled("Warn") THEN plog + 1 ELSE plog
                      /\ UNCHANGED <<window_size, ucell>>
    /\ UNCHANGED <<termios, attached, ptyIoVars, ptsVars, cmdVars, engineVars, nextFrame, dmaVars,
                   probeVars, fsVars, readAtVars, mountVars, lookupVars, hbaVars>>

PtyNext ==
    \/ \E command \in PtyCommands, valid \in BOOLEAN, v \in PtyValues,
          leader \in BOOLEAN : SlaveIoctl(command, valid, v, leader)
    \/ \E command \in PtyCommands, valid \in BOOLEAN, v \in PtyValues :
          MasterIoctl(command, valid, v)

SpecPty == PtyInit /\ [][PtyNext]_vars

(***************************************************************************)
(* The port engine with reads that start around the last sector a 28-bit   *)
(* command can address: 128 sectors below it, at it, and just past it.     *)
(***************************************************************************)
LbaSectors == {Lba28Max - 127, Lba28Max, Lba28Max + 1}
LbaInputs == LbaSectors \X LbaLens

LbaThreadStep(t) ==
    \/ \E in \in LbaInputs : Read(t, in[1], in[2])
    \/ CallStep(t)

LbaNext ==
    \/ \E t \in Threads : LbaThreadStep(t)
    \/ DeviceStep

SpecLba == Init /\ [][LbaNext]_vars

(***************************************************************************)
(* HbaPort::run_command on its own: one call on a slot whose command table *)
(* holds what an earlier use left there, for the (count, buffer) pairs     *)
(* run_request passes.                                                     *)
(***************************************************************************)
\* The requests (sector, sectors) and the offsets run_request reaches in
\* them.
CmdRequests == {0, Lba28Max + 1} \X ((1..MaxSectors) \cup {129})
CmdOffsets == {0, MaxCmdSectors}

\* What the flags words of the slot's descriptors hold beforehand: bits
\* 22..31 all clear, all set, or bit 31 (interrupt on completion) alone.
OldRests == {0, 1023, 512}
OldTables ==
    {[w |-> TRUE, prdtl |-> PrdtlInit,
      prdt |-> [k \in 1..PrdtlInit |-> [dba |-> 0, dbc |-> 4194303, rest |-> r]],
      fis |-> [command |-> 0, lba |-> <<0, 0, 0, 0, 0, 0>>, count |-> 0]]
     : r \in OldRests}

CmdInit ==
    /\ cpc = "call"
    /\ \E r \in CmdRequests, off \in CmdOffsets :
          /\ off < r[2]
          /\ cin = Some([request |-> unwrap(DmaRequest_new(r[1], r[2], 0)),
                         offset |-> off])
    /\ cold \in {Some(o) : o \in OldTables}
    /\ ctbl = None
    /\ PtyIdle
    /\ EngineInit /\ nextFrame = 0 /\ DmaIdle /\ ProbeIdle
    /\ FsIdle /\ ReadAtIdle /\ MountIdle /\ LookupIdle /\ HbaIdle

\* The arguments run_request passes for the request and offset of cin.
CmdCount == CommandSectors(unwrap(cin).request.count - unwrap(cin).offset)
CmdBuffer == unwrap(at_offset(unwrap(cin).request, unwrap(cin).offset))

RunCommand ==
    /\ cpc = "call"
    /\ IF RunCommandPanics(CmdCount, CmdBuffer)
       THEN cpc' = "panic" /\ UNCHANGED ctbl
       ELSE /\ ctbl' = Some(RunCommandTable(unwrap(cold),
                                            into_command(unwrap(cin).request),
                                            unwrap(cin).request.sector + unwrap(cin).offset,
                                            CmdCount, CmdBuffer))
            /\ cpc' = "done"
    /\ UNCHANGED <<cin, cold, ptyVars, engineVars, nextFrame, dmaVars, probeVars,
                   fsVars, readAtVars, mountVars, lookupVars, hbaVars>>

CmdNext == RunCommand

SpecCmd == CmdInit /\ [][CmdNext]_vars

(***************************************************************************)
(* The pty pair as a byte channel: Slave::write_at appends to the master's *)
(* buffer and Master::read_at drains it.  Bytes are named: "NL" is b'\n',  *)
(* "CR" is b'\r', "a" any other byte.  A termios value stands for a        *)
(* Termios structure; the even ones, among them the one Slave::new builds, *)
(* have ONLCR in c_oflag.                                                  *)
(***************************************************************************)
MaxWrite == 2
MaxBuf == 2
PtyBytes == {"a", "NL"}
PtyWrites == UNION {[1..n -> PtyBytes] : n \in 0..MaxWrite}

ONLCR(t) == t % 2 = 0

\* The body of the `for b in buffer.iter()` loop of Slave::write_at: what one
\* byte of the input adds to the master's buffer while ONLCR is set.
onlcr_push_Mut(b) == <<b>>
onlcr_push(b) == IF b = "NL" THEN <<"CR", "NL">> ELSE <<b>>

\* The loop itself, from byte i of the input on.
RECURSIVE onlcr_loop(_, _, _)
onlcr_loop(master, buffer, i) ==
    IF i > Len(buffer) THEN master
    ELSE onlcr_loop(master \o onlcr_push(buffer[i]), buffer, i + 1)

\* Slave::write_at(_offset, buffer).
SlaveWrite(buffer) ==
    /\ PtyRunning
    /\ mbuf' = IF ONLCR(termios) THEN onlcr_loop(mbuf, buffer, 1)
               ELSE mbuf \o buffer
    /\ pwrites' = Append(pwrites, [buffer |-> buffer, onlcr |-> ONLCR(termios),
                                   ret |-> Len(buffer)])
    /\ PtyCalled("slave", "write_at", "Ok")
    /\ UNCHANGED <<termios, window_size, attached, ucell, plog, preads, ptsVars,
                   cmdVars, engineVars, nextFrame, dmaVars, probeVars,
                   fsVars, readAtVars, mountVars, lookupVars, hbaVars>>

\* Master::read_at(_offset, buffer), with a buffer of len bytes.
MasterRead(len) ==
    /\ PtyRunning
    /\ IF mbuf = <<>>
       THEN /\ preads' = Append(preads, [len |-> len, buffered |-> 0,
                                         err |-> TRUE, size |-> 0, bytes |-> <<>>])
            /\ PtyCalled("master", "read_at", "Err(WouldBlock)")
            /\ UNCHANGED mbuf
       ELSE LET size == Min(Len(mbuf), len)
            IN  /\ preads' = Append(preads, [len |-> len, buffered |-> Len(mbuf),
                                             err |-> FALSE, size |-> size,
                                             bytes |-> SubSeq(mbuf, 1, size)])
                /\ mbuf' = SubSeq(mbuf, size + 1, Len(mbuf))
                /\ PtyCalled("master", "read_at", "Ok")
    /\ UNCHANGED <<termios, window_size, attached, ucell, plog, pwrites, ptsVars,
                   cmdVars, engineVars, nextFrame, dmaVars, probeVars,
                   fsVars, readAtVars, mountVars, lookupVars, hbaVars>>

PtyIoNext ==
    \/ \E buffer \in PtyWrites : SlaveWrite(buffer)
    \/ \E len \in 0..MaxBuf : MasterRead(len)
    \/ \E v \in PtyValues : SlaveIoctl("TCSETSF", TRUE, v, FALSE)

SpecPtyIo == PtyInit /\ [][PtyIoNext]_vars

(***************************************************************************)
(* The pts directory: Ptmx::open makes a pair and registers its slave      *)
(* under the master's id; PtsINode::lookup finds a slave by name.  A name  *)
(* is the sequence of its characters.                                      *)
(***************************************************************************)
MaxPtys == 2
Digits == <<"0", "1", "2", "3", "4", "5", "6", "7", "8", "9">>
IsDigit(c) == \E i \in 1..Len(Digits) : Digits[i] = c
DigitValue(c) == (CHOOSE i \in 1..Len(Digits) : Digits[i] = c) - 1

PtsNames == {<<"0">>, <<"1">>, <<"2">>, <<"7">>, <<"1", "0">>, <<"0", "1">>,
             <<"+", "1">>, <<"-", "1">>, <<"+">>, <<>>, <<"1", "a">>,
             <<"m", "i", "s", "s", "i", "n", "g">>}

\* The value of a sequence of decimal digits.
RECURSIVE DecimalValue(_)
DecimalValue(digits) ==
    IF digits = <<>> THEN 0
    ELSE 10 * DecimalValue(SubSeq(digits, 1, Len(digits) - 1))
         + DigitValue(digits[Len(digits)])

\* name.parse::<u32>(): an optional "+", then one or more decimal digits;
\* anything else is an error.  The names here are too short to overflow.
parse_u32(name) ==
    LET digits == IF name # <<>> /\ name[1] = "+" THEN Tail(name) ELSE name
    IN  IF digits = <<>> \/ \E i \in 1..Len(digits) : ~IsDigit(digits[i])
        THEN None
        ELSE Some(DecimalValue(digits))

\* Ptmx::open: Master::new takes the next id, PtsFs::insert_slave registers
\* the slave under it.
PtmxOpen ==
    /\ PTY_ID < MaxPtys
    /\ is_some(pcall) => unwrap(pcall).ret # "panic"
    /\ PTY_ID' = PTY_ID + 1
    /\ slaves' = slaves \cup {PTY_ID}
    /\ UNCHANGED <<termios, window_size, attached, ucell, plog, pcalls, pcall,
                   ptsRet, ptyIoVars, cmdVars, engineVars, nextFrame, dmaVars,
                   probeVars, fsVars, readAtVars, mountVars, lookupVars, hbaVars>>

\* PtsINode::lookup(dir, name): the parse is unwrapped.
PtsLookup(name) ==
    /\ PtyRunning
    /\ LET id == parse_u32(name)
       IN  IF is_none(id)
           THEN /\ PtyCalled("pts", "lookup", "panic")
                /\ ptsRet' = Some([name |-> name, slaves |-> slaves,
                                   slave |-> None])
           ELSE IF \E e \in slaves : e = unwrap(id)
           THEN /\ PtyCalled("pts", "lookup", "Ok")
                /\ ptsRet' = Some([name |-> name, slaves |-> slaves,
                                   slave |-> id])
           ELSE /\ PtyCalled("pts", "lookup", "Err(EntryNotFound)")
                /\ ptsRet' = Some([name |-> name, slaves |-> slaves,
                                   slave |-> None])
    /\ UNCHANGED <<termios, window_size, attached, ucell, plog, slaves, PTY_ID,
                   ptyIoVars, cmdVars, engineVars, nextFrame, dmaVars,
                   probeVars, fsVars, readAtVars, mountVars, lookupVars, hbaVars>>

PtsNext ==
    \/ PtmxOpen
    \/ \E name \in PtsNames : PtsLookup(name)

SpecPts == PtyInit /\ [][PtsNext]_vars

(***************************************************************************)
(*                               Claims                                    *)
(***************************************************************************)
\* The slots that hold a reference to the request `id`.
SlotsOf(id) == {i \in Slots : cmds[i] = Some(id)}

\* The requests whose caller has returned from read and dropped its Arc.
Released(id) == \A t \in Threads : is_none(req[t]) \/ Request(t).id # id

InRead(t) == pc[t] \notin {"idle", "panic"}

\* C1: on a port whose device completes every command, every call of
\* AhciPort::read eventually returns with its whole request dispatched
\* (short of a kernel panic for lack of frames), also once 32 commands have
\* been dispatched on the port and for a request of more commands than
\* there are free slots.
C1_EveryReadReturns ==
    \A t \in Threads : (InRead(t) /\ NoPanic) ~> (pc[t] = "idle" \/ ~NoPanic)

\* C2: whenever run_request is about to pick slot i, the first index with
\* cmds[i] = None, for a new command, bit i of the command-issue register is
\* clear.
C2_PickedSlotNotIssued ==
    \A t \in Threads :
        (pc[t] = "sched" /\ remaining[t] > 0 /\ is_some(find_free_slot))
            => unwrap(find_free_slot) \notin ci

\* C2 witness: a thread picks the last slot after 31 earlier commands while
\* the other thread has a request of its own under way.
C2_Witness ==
    \E t \in Threads :
        /\ pc[t] = "sched" /\ remaining[t] > 0
        /\ find_free_slot = Some(NumSlots - 1)
        /\ \E u \in Threads \ {t} : pc[u] = "lock"

\* Two threads have each submitted a one-command request, nothing of either
\* is dispatched yet, and the port has one free slot.
TwoSubmitters(t, u) ==
    /\ t # u
    /\ free_cmds = 1
    /\ \A v \in {t, u} : /\ pc[v] \in {"loop", "lock"}
                         /\ offset[v] = 0
                         /\ Request(v).count <= MaxCmdSectors

\* C3: two concurrent submissions to a port with one free slot serialize:
\* the second is not dispatched while the first occupies the slot, it
\* blocks until that slot frees, and then proceeds, so both calls return.
C3_SecondProceeds ==
    \A t, u \in Threads :
        TwoSubmitters(t, u) ~> (pc[t] = "idle" /\ pc[u] = "idle")

\* C4: a slot is free until a command is issued into it; once busy it holds
\* one request reference, and it becomes free again, only after its
\* command-issue bit has cleared.
C4_SlotLifecycle ==
    /\ [](\A i \in Slots : Len(cmds[i]) <= 1)
    /\ [][\A i \in Slots : (is_some(cmds[i]) /\ is_none(cmds'[i])) => i \notin ci]_vars
    /\ \A i \in Slots : is_some(cmds[i]) ~> is_none(cmds[i])

\* C5: once read has returned and the caller has dropped its Arc, no command
\* slot holds a reference to that request and its reference count is zero.
C5_RequestDestroyed ==
    \A id \in 1..Len(rc) : Released(id) => (SlotsOf(id) = {} /\ rc[id] = 0)

CeilDiv(a, b) == (a + b - 1) \div b

RECURSIVE SumSizes(_)
SumSizes(buffer) ==
    IF buffer = <<>> THEN 0 ELSE Head(buffer).data_size + SumSizes(Tail(buffer))

Sizes(buffer) == [k \in 1..Len(buffer) |-> buffer[k].data_size]

\* C6: for every sector count n > 0, DmaRequest::new yields exactly
\* ceil(n * 512 / 8192) buffers, each of more than 0 and at most 8192 bytes,
\* whose sizes sum to n * 512.
C6_SplitSizes ==
    (dmaOut.state = "done" /\ dmaIn.count > 0) =>
        /\ Len(dmaOut.buffer) = CeilDiv(dmaIn.count * 512, 8192)
        /\ \A k \in 1..Len(dmaOut.buffer) :
              /\ dmaOut.buffer[k].data_size > 0
              /\ dmaOut.buffer[k].data_size <= 8192
        /\ SumSizes(dmaOut.buffer) = dmaIn.count * 512

\* C6 witness: 17 sectors have been split, into a full buffer and a rest.
C6_Witness ==
    /\ dmaOut.state = "done"
    /\ dmaIn.count = 17
    /\ Sizes(dmaOut.buffer) = <<8192, 512>>

\* C7: every buffer DmaRequest::new creates is marked huge if and only if
\* its own data size exceeds 4096 bytes.
C7_HugeIffLarge ==
    dmaOut.state = "done" =>
        \A k \in 1..Len(dmaOut.buffer) :
            dmaOut.buffer[k].huge <=> (dmaOut.buffer[k].data_size > 4096)

\* C7 witness: 24 sectors have been split into a huge buffer of 8192 bytes
\* and a buffer of exactly 4096 bytes that is not huge.
C7_Witness ==
    /\ dmaOut.state = "done"
    /\ dmaIn.count = 24
    /\ Sizes(dmaOut.buffer) = <<8192, 4096>>
    /\ dmaOut.buffer[1].huge
    /\ ~dmaOut.buffer[2].huge

\* The dispatch of a 20-sector request: at most one slot ever holds it, and
\* once it is wholly dispatched exactly one does, programmed with one
\* command of 20 sectors over both buffers.
OneCommandDispatch(t) ==
    /\ Cardinality(SlotsOf(Request(t).id)) <= 1
    /\ offset[t] = 20 =>
          /\ Cardinality(SlotsOf(Request(t).id)) = 1
          /\ \A i \in SlotsOf(Request(t).id) :
                cmdtbl[i].fis.count = 20 /\ cmdtbl[i].prdtl = 2

\* C8 as amended: a 10 KiB read request (20 sectors) yields exactly 2 DMA
\* buffers, of 8192 and 2048 bytes, and its dispatch issues exactly one
\* command using 1 command slot.
C8_TenKiBRead ==
    \A t \in Threads :
        (is_some(req[t]) /\ Request(t).count = 20) =>
            /\ blen[t] = 10240
            /\ Sizes(Request(t).buffer) = <<8192, 2048>>
            /\ OneCommandDispatch(t)

\* C8 as stated: the 2 buffers of the 10 KiB request are of 8192 and 1808
\* bytes.
C8_Original ==
    \A t \in Threads :
        (is_some(req[t]) /\ Request(t).count = 20) =>
            /\ blen[t] = 10240
            /\ Sizes(Request(t).buffer) = <<8192, 1808>>
            /\ OneCommandDispatch(t)

\* C8 witness: a 10 KiB request is wholly dispatched and its call is about
\* to return.
C8_Witness ==
    \E t \in Threads :
        /\ pc[t] = "loop" /\ blen[t] = 10240 /\ offset[t] = 20
        /\ Cardinality(SlotsOf(Request(t).id)) = 1

\* The two 4-bit fields of the SATA status the claim speaks of.
Det == ssts % 16
Ipm == (ssts \div 256) % 16
ProbePresent == Det = 3 /\ Ipm = 1
DefinedFields == Det \in {0, 1, 3, 4} /\ Ipm \in {0, 1, 2, 6, 8}

Installed ==
    /\ is_some(clb)
    /\ is_some(fb)
    /\ \A i \in Slots : is_some(ctb[i])

PortUntouched ==
    /\ is_none(clb)
    /\ is_none(fb)
    /\ \A i \in Slots : is_none(ctb[i]) /\ hdrPrdtl[i] = 0
    /\ nextFrame \in ProbeFrameStarts

ProbeOver == ppc \in {"done", "panic_ssts"}

EngineStopped == pcmd \cap CmdBits = {}

\* C10: in start, the command-list base, the FIS base and the command-table
\* addresses are written only while the command engine is stopped (ST, FRE,
\* FR and CR all clear), and ST and FRE are set again only once all of
\* those addresses are installed.
C10_StartOrdering ==
    [][/\ (clb' # clb \/ fb' # fb \/ ctb' # ctb) => EngineStopped
       /\ (pcmd' \cap {"ST", "FRE"}) \ pcmd # {} => Installed]_vars

\* C10 witness: every address is installed with the engine still stopped
\* and start_cmd is about to run.
C10_Witness ==
    /\ ppc = "tables"
    /\ pidx = NumSlots
    /\ Installed
    /\ EngineStopped

HoldsPort(t) == lock = t /\ irqOff[t]

\* C11: the slot table and the free-slot count are read and changed only by
\* a thread that holds the port's lock with its interrupts masked, a thread
\* unmasks its interrupts only once it has released the lock, and at most
\* one thread at a time is inside run_command, its busy-wait included.
C11_LockedAccess ==
    /\ [](\A t \in Threads : pc[t] \in {"sched", "wait", "unlock"} => HoldsPort(t))
    /\ [](\A t, u \in Threads :
            (pc[t] = "wait" /\ pc[u] = "wait") => t = u)
    /\ [][(cmds' # cmds \/ free_cmds' # free_cmds) =>
             \E t \in Threads : pc[t] = "wait" /\ HoldsPort(t) /\ pc'[t] = "sched"]_vars
    /\ [][\A t \in Threads : (irqOff[t] /\ ~irqOff'[t]) => lock # t]_vars

\* C11 witness: one thread is in run_command's busy-wait while another, its
\* interrupts masked, spins on the lock.
C11_Witness ==
    \E t, u \in Threads :
        /\ t # u
        /\ pc[t] = "wait" /\ slot[t] \in ci
        /\ pc[u] = "lock" /\ irqOff[u]

\* C12: when the device fails a command of a read, AhciPort::read returns
\* None and leaves the caller's buffer unmodified.
C12_FailureReturnsNone ==
    \A t \in Threads :
        (pc[t] = "idle" /\ ioerr[t]) => (result[t] = None /\ dst[t] = <<>>)

ReadAtOver == rpc \in {"done", "panic"}

\* C13: for an inode of recorded size `size`, read_at(offset, buffer) with
\* the offset within the file returns exactly min(buffer.len(), size -
\* offset) and writes no destination byte at or beyond that count.
C13_ReadAtCount ==
    (ReadAtOver /\ roff <= rsize) =>
        /\ rpc = "done"
        /\ rret = Some(Min(rlen, rsize - roff))
        /\ \A k \in 1..Len(rwrites) :
              rwrites[k].at + rwrites[k].len <= Min(rlen, rsize - roff)

\* C14: when a device read fails for a chunk of read_at, the operation does
\* not report success and nothing of the failed read reaches the
\* destination buffer.
C14_FailureSurfaced ==
    rfail =>
        /\ rpc # "done"
        /\ \A k \in 1..Len(rwrites) : rwrites[k].init

MountReturnedNone == mpc \in {"none_superblock_read", "none_magic", "none_bgdt_read"}
MountPanicked == mpc \in {"panic_inode_size", "panic_bgdt_len", "panic_bgdt_sector"}
MountOver == MountReturnedNone \/ MountPanicked \/ mpc = "mounted"
Mounted == mpc \in {"mounted", "panic_find_inode", "panic_root_dir"}

\* C15: with a superblock magic other than 0xEF53, whatever the rest of the
\* superblock holds, Ext2::new never returns a volume, never faults and
\* never reads the group-descriptor table.
C15_BadMagicNoVolume ==
    sb.magic # MAGIC =>
        /\ mpc \in {"new", "magic", "none_superblock_read", "none_magic"}
        /\ bgdtReads = 0
        /\ bgdt = None

\* C15 witness: a superblock with a wrong magic and an inode size other
\* than 128 has been rejected at the magic check.
C15_Witness ==
    /\ sb.magic = MAGIC - 1
    /\ sb.inode_size # DiskINodeSize
    /\ sb.blocks_per_group = 0
    /\ mpc = "none_magic"

\* C16: mounting a volume with the right magic and an inode size other than
\* 128 ends by returning None.
C16_InodeSizeReturnsNone ==
    (sb.magic = MAGIC /\ sb.inode_size # DiskINodeSize /\ mpc # "mounted"
        /\ (MountOver \/ Mounted)) => MountReturnedNone

\* C17: on a volume that Ext2::new returned, find_inode(2) succeeds
\* whenever the device answers, and yields the node with id 2, and root_dir
\* then returns the root "/" without faulting.
C17_RootInodeFound ==
    /\ (is_some(fret) /\ unwrap(fret).id = ROOT_INODE_ID /\ unwrap(fret).ok) =>
          (unwrap(fret).res = "some" /\ ROOT_INODE_ID \in icache)
    /\ (is_some(rootRet) /\ unwrap(rootRet).ok) =>
          (unwrap(rootRet).name = "/" /\ unwrap(rootRet).inode = ROOT_INODE_ID
              /\ mpc = "mounted")

\* An inode id that is not on the volume: 0, or one whose block group is
\* not in the group-descriptor table.
NoSuchInode(id) ==
    \/ id = 0
    \/ sb.inodes_per_group > 0 /\ (id - 1) \div sb.inodes_per_group >= unwrap(bgdt)

\* C19: on a volume with a positive inodes_per_group, find_inode on an id
\* that is not on the volume returns None.
C19_MissingInodeIsNone ==
    (is_some(fret) /\ sb.inodes_per_group > 0 /\ NoSuchInode(unwrap(fret).id)) =>
        unwrap(fret).res = "none"

DirNames(d) == {d[k].name : k \in 1..Len(d)}

\* C18: looking up a name that the directory does not contain ends, for
\* every directory content, with the entry-not-found error: not with a
\* crash and not with some other entry.
C18_MissingNameNotFound ==
    (lpc \in {"done", "panic"} /\ lname \notin DirNames(dir)) =>
        (lpc = "done" /\ lret = Some(EntryNotFound))

\* C20: once start_hba has enabled the HBA, the adapter-enable (AE) and the
\* interrupt-enable (IE) bits of global host control are both set and every
\* other bit of the register is as it was before.
C20_EnableSetsAeAndIe ==
    hpc \in {"ports", "done", "panic"} =>
        /\ {"AE", "IE"} \subseteq ghc
        /\ ghc \ {"AE", "IE"} = current_flags \ {"AE", "IE"}

\* The last ioctl call was on `dev` with a command outside `known`.
UnknownCall(dev, known) ==
    /\ pcalls' = pcalls + 1
    /\ unwrap(pcall').dev = dev
    /\ unwrap(pcall').command \notin known

\* C21: a device-control request on the slave with a command other than
\* TIOCGWINSZ, TCGETS, TCSETSF and TIOCSCTTY returns Err(NotSupported) and
\* changes neither the termios nor anything else of the pair; a request on
\* the master with a command it does not know is logged, changes no state
\* and returns Ok(0).
C21_UnknownIoctl ==
    [][/\ UnknownCall("slave", {"TIOCGWINSZ", "TCGETS", "TCSETSF", "TIOCSCTTY"})
          => /\ unwrap(pcall').ret = "Err(NotSupported)"
             /\ UNCHANGED <<termios, window_size, attached, ucell, plog>>
       /\ UnknownCall("master", {"TIOCGPTN", "TIOCSWINSZ"})
          => /\ unwrap(pcall').ret = "Ok(0)"
             /\ plog' = plog + 1
             /\ UNCHANGED <<termios, window_size, attached, ucell>>]_vars

C21_Witness ==
    /\ termios = 1
    /\ plog = 1
    /\ pcall = Some([dev |-> "slave", command |-> "TIOCSWINSZ",
                     ret |-> "Err(NotSupported)"])

\* The LBA a command FIS carries, from its bytes lba0..lba3 (lba4 and lba5
\* are zero for the sectors read here).
FisLba(fis) ==
    fis.lba[1] + 256 * fis.lba[2] + 65536 * fis.lba[3] + 16777216 * fis.lba[4]

\* The slots holding the commands issued so far for thread t's request: the
\* ones recorded in the slot table and the one run_command is waiting for.
\* A slot is used once, so its command table still holds that command.
IssuedSlots(t) ==
    SlotsOf(Request(t).id) \cup (IF pc[t] = "wait" THEN {slot[t]} ELSE {})

\* The slot of the command issued just before that of slot i, among S.
Previous(S, i) == {j \in S : j < i /\ \A k \in S : k < i => k <= j}

\* The sector just past the command of slot i.
FisEnd(i) == FisLba(cmdtbl[i].fis) + cmdtbl[i].fis.count

BackingBuffers(off, count) ==
    {k \in 1..((off + count - 1) \div SectorsPerBuffer + 1) :
        k > off \div SectorsPerBuffer}

RECURSIVE SumDbc(_, _)
SumDbc(prdt, n) == IF n = 0 THEN 0 ELSE prdt[n].dbc + 1 + SumDbc(prdt, n - 1)

\* C23: while a command of a request is in flight, the descriptors its
\* header counts are those of the buffers backing sectors
\* offset .. offset + count of the request, in order, and their byte counts
\* sum to count * 512.
C23_BuffersOfTheSectors ==
    \A t \in Threads : pc[t] = "wait" =>
        LET r == Request(t)
            tbl == cmdtbl[slot[t]]
            first == offset[t] \div SectorsPerBuffer
        IN  /\ {first + k : k \in 1..tbl.prdtl} = BackingBuffers(offset[t], cnt[t])
            /\ \A k \in 1..tbl.prdtl :
                  /\ tbl.prdt[k].dba = r.buffer[first + k].start
                  /\ tbl.prdt[k].dbc + 1 = r.buffer[first + k].data_size
            /\ SumDbc(tbl.prdt, tbl.prdtl) = cnt[t] * SectorSize

\* The second command of a request, taking the buffers after the first
\* eight.
C23_Witness ==
    \E t \in Threads :
        /\ pc[t] = "wait"
        /\ offset[t] = MaxCmdSectors
        /\ cmdtbl[slot[t]].prdt[1].dba = Request(t).buffer[9].start

\* C24: run_command for `count` sectors sets the header's PRDT length to
\* ceil(count / 16) and writes exactly that many descriptors: descriptor k
\* gets buffer k's start address and, in bits 0..21 of its flags word,
\* buffer k's data_size - 1, the other bits of the word staying as they
\* were; the descriptors after them are not written.
C24_PrdtProgrammed ==
    cpc = "done" =>
        LET tbl == unwrap(ctbl)
            old == unwrap(cold)
            length == CeilDiv(CmdCount, SectorsPerBuffer)
        IN  /\ tbl.prdtl = length
            /\ Len(tbl.prdt) = Len(old.prdt)
            /\ \A k \in 1..Len(tbl.prdt) :
                  IF k <= length
                  THEN /\ tbl.prdt[k].dba = CmdBuffer[k].start
                       /\ tbl.prdt[k].dbc = CmdBuffer[k].data_size - 1
                       /\ tbl.prdt[k].rest = old.prdt[k].rest
                  ELSE tbl.prdt[k] = old.prdt[k]

\* A command of 65 sectors (five descriptors, the last of 512 bytes) on a
\* table whose flags words had bits 22..31 set.
C24_Witness ==
    /\ cpc = "done"
    /\ CmdCount = 65
    /\ unwrap(ctbl).prdtl = 5
    /\ unwrap(ctbl).prdt[5] = [dba |-> CmdBuffer[5].start, dbc |-> 511, rest |-> 1023]
    /\ unwrap(ctbl).prdt[6].dbc = 4194303

\* Thread t is about to call run_command with a buffer slice that does not
\* exist or is shorter than the descriptors the command needs.
DispatchPanics(t) ==
    /\ pc[t] = "sched"
    /\ remaining[t] > 0
    /\ is_some(find_free_slot)
    /\ LET buffer == at_offset(Request(t), offset[t])
       IN  \/ is_none(buffer)
           \/ RunCommandPanics(CommandSectors(remaining[t]), unwrap(buffer))

\* C25: no command header is given a PRDT length above the 8 entries start()
\* declares for a command table, and no call of run_command indexes past
\* the end of the buffer slice at_offset hands it, whatever the request size
\* and the offset reached.
C25_PrdtWithinTable ==
    /\ \A i \in Slots : cmdtbl[i].prdtl <= PrdtlInit /\ Len(cmdtbl[i].prdt) <= PrdtlInit
    /\ \A t \in Threads : ~DispatchPanics(t)

\* The 30th command of a 31-command request in flight, with a full table.
C25_Witness ==
    \E t \in Threads :
        /\ pc[t] = "wait"
        /\ offset[t] = 29 * MaxCmdSectors
        /\ cmdtbl[slot[t]].prdtl = PrdtlInit
        /\ Len(unwrap(at_offset(Request(t), offset[t]))) > PrdtlInit

C27_CrossingIsLba48 ==
    \A t \in Threads : pc[t] = "wait" =>
        (Request(t).sector + offset[t] + cnt[t] - 1 > Lba28Max
            => cmdtbl[slot[t]].fis.command = 37)

\* C28: when read returns for a destination of L bytes, copy_into has
\* written L bytes in all: the k-th copy takes the first
\* min(8192, L - 8192 (k - 1)) bytes of the k-th DMA buffer to the
\* destination from byte 8192 (k - 1) on, so destination byte i is byte
\* i mod 8192 of buffer i div 8192; the buffers are taken in order and no
\* copy reads more than its buffer's data_size, whether or not L is a
\* multiple of 512.
C28_CopyInto ==
    [][\A t \in Threads : (pc[t] = "loop" /\ pc'[t] = "idle") =>
          LET L == blen[t]
              cp == dst'[t]
              b == Request(t).buffer
          IN  /\ is_some(result'[t])
              /\ Len(cp) = CeilDiv(L, 8192)
              /\ Len(cp) <= Len(b)
              /\ \A k \in 1..Len(cp) :
                    /\ cp[k].buf = k
                    /\ cp[k].at = 8192 * (k - 1)
                    /\ cp[k].count = Min(8192, L - 8192 * (k - 1))
                    /\ cp[k].count <= b[k].data_size
              /\ cp # <<>> => cp[Len(cp)].at + cp[Len(cp)].count = L]_vars

\* A read of 10000 bytes returned: 8192 bytes of the first buffer and 1808
\* of the second, whose data_size is 2048.
C28_Witness ==
    \E t \in Threads :
        /\ pc[t] = "idle"
        /\ is_some(result[t])
        /\ blen[t] = 10000
        /\ dst[t] = <<[buf |-> 1, at |-> 0, count |-> 8192],
                      [buf |-> 2, at |-> 8192, count |-> 1808]>>

\* C29: in every state of a port free_cmds is the number of None entries of
\* the 32-entry slot table; it is 32 before any command, and the decrement
\* after a command never finds it at 0.
C29_FreeCmdsCountsEmptySlots ==
    /\ free_cmds = Cardinality(FreeSlots)
    /\ free_cmds \in 0..32
    /\ rc = <<>> => free_cmds = 32
    /\ \A t \in Threads : pc[t] = "wait" => free_cmds > 0

\* The slot table full.
C29_Witness ==
    /\ free_cmds = 0
    /\ \A i \in Slots : is_some(cmds[i])
    /\ \E t \in Threads : pc[t] = "sched" /\ remaining[t] > 0

\* The first entry of d that carries the name.
FirstNamed(d, name) ==
    CHOOSE k \in 1..Len(d) : d[k].name = name /\ \A j \in 1..(k - 1) : d[j].name # name

\* C30: a lookup of a name stored in the directory's first block returns
\* that name's entry whatever entries precede it, unused ones (inode number
\* 0) and ones whose inode cannot be resolved included: the lookup does not
\* end before it has read the entry that carries the name, and unless that
\* entry's own inode fails to resolve it returns the entry.
C30_StoredNameFound ==
    (lpc \in {"done", "panic"} /\ lname \in DirNames(dir)) =>
        LET k == FirstNamed(dir, lname)
        IN  \/ /\ lpc = "done"
               /\ lret = Some([found |-> TRUE, name |-> lname, inode |-> dir[k].inode])
            \/ loff > EntryOffset(dir, k)

\* C31: the directory iterator reads its entries at strictly increasing
\* offsets, each advance being the size field of the entry just read, so
\* that the iteration reaches the recorded size and ends for every
\* directory content, entries with a size field of 0 included.
C31_OffsetsIncrease ==
    \A i \in 1..(Len(lreads) - 1) : lreads[i].offset < lreads[i + 1].offset

\* C32: every entry header and name the iterator reads lies inside the
\* directory's first data block, at bytes 0 .. block_size - 1 from its
\* start, for every recorded size and every entry size.
C32_ReadsInsideFirstBlock ==
    \A i \in 1..Len(lreads) :
        lreads[i].offset + DiskDirEntrySize + lreads[i].name_size <= block_size(sb)

\* C33: every block read_at touches is resolved through one of the inode's
\* 15 direct pointers: the index (offset + progress) / block_size it is
\* about to use on data_ptr is in 0..14, for every file size, offset and
\* buffer length; here for the reads that start inside the file.
C33_DirectPointerIndex ==
    (rpc = "loop" /\ rprogress < rcount /\ roff <= rsize) =>
        (roff + rprogress) \div block_size(sb) \in 0..14

\* C34: read_at handles [offset, offset + count) as consecutive chunks: the
\* first starts at progress 0 and each next one where the one before ended;
\* each is not empty, lies within one block (loc + chunk <= block_size), is
\* read from byte loc of the block that data_ptr[(offset + progress) /
\* block_size] names and copied to buffer[progress .. progress + chunk];
\* progress is the end of the last chunk, and read_at returns Ok(count) with
\* progress = count.
C34_ChunksPartition ==
    /\ \A k \in 1..Len(rwrites) :
          LET w == rwrites[k]
              bs == block_size(sb)
          IN  /\ w.at = IF k = 1 THEN 0 ELSE rwrites[k - 1].at + rwrites[k - 1].len
              /\ w.len > 0
              /\ w.ptr = (roff + w.at) \div bs
              /\ w.loc = (roff + w.at) % bs
              /\ w.loc + w.len <= bs
              /\ w.at + w.len <= rcount
              /\ w.at + w.len < rcount => w.loc + w.len = bs
    /\ rprogress = IF rwrites = <<>> THEN 0
                   ELSE rwrites[Len(rwrites)].at + rwrites[Len(rwrites)].len
    /\ rpc = "done" => rprogress = rcount /\ rret = Some(rcount)

\* A read of 2500 bytes from offset 100 of a volume with 1 KiB blocks done
\* in chunks of 924, 1024 and 552 bytes.
C34_Witness ==
    /\ rpc = "done"
    /\ roff = 100
    /\ rret = Some(2500)
    /\ Len(rwrites) = 3
    /\ rwrites[1].len = 924 /\ rwrites[2].len = 1024 /\ rwrites[3].len = 552
    /\ rwrites[3].ptr = 2 /\ rwrites[3].loc = 0

\* A call of find_inode that returned.
FindReturned == fret' # fret /\ unwrap(fret').res # "panic"

\* C35: find_inode(id) looks in the inode cache first and on a hit reads
\* nothing from the device and returns the cached node, leaving the cache
\* as it is; on a miss it reads exactly one record of 128 bytes, at byte
\* ((id - 1) mod inodes_per_group) * 128 of the inode table of block group
\* (id - 1) / inodes_per_group, and when the read succeeds returns the node
\* and has it in the cache, so that the next find_inode(id) is a hit.
C35_CacheThenOneRead ==
    [][FindReturned =>
         LET f == unwrap(fret')
         IN  IF f.id \in icache
             THEN f.reads = <<>> /\ f.res = "some" /\ icache' = icache
             ELSE /\ f.reads = <<[group |-> (f.id - 1) \div sb.inodes_per_group,
                                  at |-> ((f.id - 1) % sb.inodes_per_group) * 128,
                                  len |-> 128]>>
                  /\ f.res = "some" <=> f.ok
                  /\ icache' = IF f.ok THEN icache \cup {f.id} ELSE icache]_vars

\* Inode 9 (the first of the second block group) found again with the
\* device failing: a hit, without a read.
C35_Witness ==
    /\ is_some(fret)
    /\ unwrap(fret) = [id |-> 9, ok |-> FALSE, res |-> "some", reads |-> <<>>]
    /\ sb.inodes_per_group = 8
    /\ 9 \in icache

\* C36: for every log_block_size, Ext2::new reads the group-descriptor
\* table from sector bgdt_sector(), and bgdt_sector() * 512 is the byte at
\* which the block after the one holding byte 1024 (the superblock) starts:
\* sector 4 for 1 KiB blocks, block_size / 512 for larger ones.
C36_BgdtAfterSuperBlock ==
    mpc \in {"mounted", "none_bgdt_read", "panic_bgdt_sector"} =>
        /\ mpc # "panic_bgdt_sector"
        /\ is_some(bgdtAt)
        /\ LET bs == 1024 * (2 ^ sb.log_block_size)
           IN  /\ unwrap(bgdtAt) * 512 = ((1024 \div bs) + 1) * bs
               /\ unwrap(bgdtAt) = IF bs = 1024 THEN 4 ELSE bs \div 512

\* C37: the master's buffer is a first-in first-out byte channel.  The bytes
\* the master's reads returned, in order, followed by the bytes still
\* buffered, are the concatenation of the slave's writes, each with every
\* "\n" replaced by "\r\n" if ONLCR was set when it was written and verbatim
\* if not; a read of an empty buffer is WouldBlock, any other read returns
\* min(buffer.len(), bytes buffered) bytes; a write returns its input's length.
RECURSIVE C37_Translated(_)
C37_Translated(bytes) ==
    IF bytes = <<>> THEN <<>>
    ELSE (IF Head(bytes) = "NL" THEN <<"CR", "NL">> ELSE <<Head(bytes)>>)
         \o C37_Translated(Tail(bytes))

RECURSIVE C37_Written(_)
C37_Written(ws) ==
    IF ws = <<>> THEN <<>>
    ELSE (IF Head(ws).onlcr THEN C37_Translated(Head(ws).buffer)
          ELSE Head(ws).buffer) \o C37_Written(Tail(ws))

RECURSIVE C37_Read(_)
C37_Read(rs) ==
    IF rs = <<>> THEN <<>> ELSE Head(rs).bytes \o C37_Read(Tail(rs))

C37_FifoChannel ==
    /\ C37_Read(preads) \o mbuf = C37_Written(pwrites)
    /\ \A k \in 1..Len(preads) :
          /\ preads[k].err <=> preads[k].buffered = 0
          /\ ~preads[k].err =>
                /\ preads[k].size = Min(preads[k].len, preads[k].buffered)
                /\ Len(preads[k].bytes) = preads[k].size
    /\ \A k \in 1..Len(pwrites) : pwrites[k].ret = Len(pwrites[k].buffer)

\* A "\n" written with ONLCR set has been read back as "\r" and then "\n" by
\* two reads of one byte each.
C37_Witness ==
    /\ Len(pwrites) = 1 /\ pwrites[1].buffer = <<"NL">> /\ pwrites[1].onlcr
    /\ Len(preads) = 2
    /\ preads[1].bytes = <<"CR">> /\ preads[2].bytes = <<"NL">>
    /\ mbuf = <<>>

\* C38: a lookup in the pts directory returns the slave registered under the
\* id its name denotes, and entry-not-found for every name that matches no
\* registered slave, names that are not decimal numbers included; it never
\* faults.
C38_Registered(r) ==
    is_some(parse_u32(r.name)) /\ unwrap(parse_u32(r.name)) \in r.slaves

C38_LookupNeverFaults ==
    (is_some(ptsRet) /\ is_some(pcall) /\ unwrap(pcall).dev = "pts") =>
        LET r == unwrap(ptsRet)
        IN  IF C38_Registered(r)
            THEN /\ unwrap(pcall).ret = "Ok"
                 /\ r.slave = parse_u32(r.name)
            ELSE unwrap(pcall).ret = "Err(EntryNotFound)"

====
